---- MODULE Spec2Model ----
(***************************************************************************)
(* A model of ReTawny V2: the Voronoi mask generator                       *)
(* (OrthoLoader::generateVoronoiMasks), the coverage mask builder          *)
(* (buildCoverageMask) and the dual-mask multi-band blender                *)
(* (DualMaskMultiBandBlender).                                             *)
(*                                                                         *)
(* Numbers.  Canvas coordinates are integers; tile centres are             *)
(* half-integers, so every distance is kept as the integer                 *)
(*   q = (2*dx)^2 + (2*dy)^2,   dist = sqrt(q) / 2,                        *)
(* and every comparison of distances against a margin is decided exactly   *)
(* on integers (SqrtDiffGe).  The generator's doubles are modelled by the  *)
(* reals they represent.                                                   *)
(***************************************************************************)
EXTENDS Integers, Naturals, Sequences, FiniteSets, TLC

VARIABLES
    tiles_,          \* OrthoLoader::tiles_ : the finalized tiles (x, y, width, height)
    pcFiles,         \* the PC_ validity mask file of each tile, as found on disk
    generated,       \* tiles whose generatedMaskPath is set
    voronoiFiles,    \* the <base>_voronoi_mask.tif written for each tile
    overlapMargin,   \* the overlap_margin parameter
    featherRadius,   \* the feather_radius parameter
    useVoronoiMasks, \* the use_voronoi parameter
    genResult,       \* outcome of generateVoronoiMasks: "none", "ok", "error"
    errorMessage,    \* *errorMessage as generateVoronoiMasks left it
    divByZero,       \* TRUE once the gradient ratio was evaluated with 2*margin = 0
    tileIndex,       \* the driver's feed loop: number of tiles whose masks are built
    weightMasks,     \* the weight mask W the driver built for each tile
    blendMasks,      \* the blend mask B the driver built for each tile
    rasters,         \* the raster file of each tile
    phase,           \* the blender: "none", "constructed", "prepared", "blended", "crashed"
    weight_type_,    \* DualMaskMultiBandBlender::weight_type_ : "CV_32F" or "CV_16S"
    actual_num_bands_, \* the number of bands asked for
    num_bands_,      \* the number of bands prepare kept
    dst_roi_,        \* the padded destination rectangle
    dst_roi_final_,  \* the destination rectangle as passed to prepare
    dst_pyr_laplace_,  \* the Laplacian accumulators L[0 .. num_bands_], as L[1 ..]
    dst_band_weights_, \* the weight accumulators Wsum[0 .. num_bands_]
    dst,             \* the composite blend handed out
    dst_mask,        \* the mask blend handed out
    fed,             \* the contributions fed since prepare, in feed order
    caller,          \* the blender's caller: its rectangle, contributions and feed count
    tfwFile,         \* the world file parseTfw is given
    record,          \* *record, parseTfw's output
    parsed,          \* what parseTfw returned: "none" before the call, TRUE or FALSE
    directory,       \* the input directory: its world files, rasters, masks, metadata
    loadResult,      \* what loadFromDirectory returned: "none", "ok" or "error"
    canvasSize_,     \* OrthoLoader::canvasSize_
    pixelWidth_,     \* OrthoLoader::pixelWidth_
    pixelHeight_,    \* OrthoLoader::pixelHeight_
    hasReference_,   \* OrthoLoader::hasReference_
    referenceTfw_,   \* OrthoLoader::referenceTfw_
    referenceCanvasSize_, \* OrthoLoader::referenceCanvasSize_
    pc,              \* main: the stage the driver is at
    numBands,        \* main: the num_bands argument
    stages,          \* main: the stages executed so far, in order
    exitStatus,      \* the exit status of the process, "none" while it runs
    diagnostics,     \* the diagnostic lines main wrote to cerr
    images,          \* the tiles whose Tile::image is loaded
    masks,           \* the tiles whose Tile::mask is loaded
    fedAny,          \* main: fedAny
    output           \* the composite saved to the output path

loaderVars == <<tiles_, pcFiles, rasters, generated, voronoiFiles, overlapMargin, featherRadius,
                useVoronoiMasks, genResult, errorMessage, divByZero, tileIndex, weightMasks,
                blendMasks>>

blenderVars == <<phase, weight_type_, actual_num_bands_, num_bands_, dst_roi_,
                 dst_roi_final_, dst_pyr_laplace_, dst_band_weights_, dst, dst_mask,
                 fed, caller>>

tfwVars == <<tfwFile, record, parsed>>

resolverVars == <<directory, loadResult, canvasSize_, pixelWidth_, pixelHeight_,
                  hasReference_, referenceTfw_, referenceCanvasSize_>>

mainVars == <<pc, numBands, stages, exitStatus, diagnostics, images, masks, fedAny,
              output>>

vars == <<loaderVars, blenderVars, tfwVars, resolverVars, mainVars>>

-----------------------------------------------------------------------------
(* Bounds of the model. *)

MaxMargin == 2

TileCounts == {0, 1, 2, 3}
TileXs == {0, 2}
TileWidths == {2, 4}
TileHeights == {1, 2}
MaskGrays == {128, 255}
FeatherRadii == {1, 2}

\* the blender: feeds per run on a canvas, in the runs that permute three
\* contributions, and in the runs that feed one contribution over and over
MaxFeeds == 2
OrderFeeds == 3
AccumFeeds == 129
WeightTypes == {"CV_32F", "CV_16S"}
BandCounts == {1, 2}
CanvasSizes == {<<1, 1>>, <<2, 1>>, <<4, 2>>}
MaskPairs == {<<255, 255>>, <<128, 255>>, <<0, 255>>, <<255, 0>>}
OrderGrays == {1, 4, 255}
SameGrays == {1, 128, 255}
SameSizes == {<<2, 1>>, <<4, 2>>}

-----------------------------------------------------------------------------
(* Exact integer arithmetic on values that pass 2^31. *)

Limb == 2 ^ 15

RECURSIVE ISqrtSearch(_, _, _)
ISqrtSearch(n, lo, hi) ==
    \* the largest r in lo..hi with r*r <= n, given lo*lo <= n < (hi+1)^2
    IF lo = hi THEN lo
    ELSE LET mid == (lo + hi + 1) \div 2
         IN IF mid * mid <= n THEN ISqrtSearch(n, mid, hi)
                              ELSE ISqrtSearch(n, lo, mid - 1)

ISqrt(n) == ISqrtSearch(n, 0, 32767)

\* a * b for 0 <= a, b < 2^30, as four limbs of 15 bits, most significant first
WideMul(a, b) ==
    LET a1 == a \div Limb
        a0 == a % Limb
        b1 == b \div Limb
        b0 == b % Limb
        p0 == a0 * b0
        p1 == a1 * b0 + a0 * b1 + (p0 \div Limb)
        p2 == a1 * b1 + (p1 \div Limb)
    IN <<p2 \div Limb, p2 % Limb, p1 % Limb, p0 % Limb>>

WideLess(u, v) ==
    \E i \in 1..4 : u[i] < v[i] /\ \A j \in 1..(i - 1) : u[j] = v[j]

\* sqrt(a) >= c + sqrt(b) for naturals a, b, c (strictly, when strict)
SqrtGeNat(a, b, c, strict) ==
    LET l == a - b - c * c
        lhs == WideMul(l, l)
        rhs == WideMul(4 * c * c, b)
    IN IF c * c > a THEN FALSE
       ELSE IF strict THEN l > 0 /\ WideLess(rhs, lhs)
                      ELSE l >= 0 /\ ~WideLess(lhs, rhs)

\* sqrt(a) - sqrt(b) >= c, for naturals a, b and any integer c
SqrtDiffGe(a, b, c) ==
    IF c >= 0 THEN SqrtGeNat(a, b, c, FALSE)
              ELSE ~SqrtGeNat(b, a, -c, TRUE)

\* floor(sqrt(a) - sqrt(b))
FloorSqrtDiff(a, b) ==
    LET c == ISqrt(a) - ISqrt(b)
    IN IF SqrtDiffGe(a, b, c) THEN c ELSE c - 1

-----------------------------------------------------------------------------
(* Images.  A pixel is <<x, y>>; an image is a function on Pixels(w, h). *)

Pixels(w, h) == (0 .. (w - 1)) \X (0 .. (h - 1))

NoFile == [state |-> "none"]

\* cv::Mat(tile.height, tile.width, CV_8UC1, cv::Scalar(0))
ZeroMask(w, h) == [p \in Pixels(w, h) |-> 0]

-----------------------------------------------------------------------------
(* OrthoLoader::generateVoronoiMasks *)

\* std::numeric_limits<double>::max(), as a squared doubled distance
DistMax == 2 ^ 30

\* the PC_ mask used for tile i: the file when there is one, else all valid
PcMaskOf(i) ==
    IF pcFiles[i].state = "ok" THEN pcFiles[i].px
    ELSE ZeroMask(tiles_[i].width, tiles_[i].height)

\* the PC_ mask of tile i accepted without the comparison of the sizes
PcMaskUsableAnySize(i) == pcFiles[i].state \in {"none", "ok"}

\* the PC_ mask of tile i can be used: absent, or read with the tile's size
PcMaskUsable(i) ==
    \/ pcFiles[i].state = "none"
    \/ /\ pcFiles[i].state = "ok"
       /\ pcFiles[i].width = tiles_[i].width
       /\ pcFiles[i].height = tiles_[i].height

\* pcMaskRow[localX] > 128 : the pixel is masked in the PC_ mask
PcMasked(gray) == gray > 128

\* the centre of the pixel grid, tile.x + (tile.width - 1) / 2.0, instead
Center2OfPixelGrid(tile) == <<2 * tile.x + tile.width - 1, 2 * tile.y + tile.height - 1>>

\* twice the tile centre: center.x = tile.x + tile.width / 2.0
Center2(tile) == <<2 * tile.x + tile.width, 2 * tile.y + tile.height>>

\* the canvas pixel <<cx, cy>> is inside tile i and valid in its PC_ mask
IsCandidate(i, cx, cy) ==
    LET lx == cx - tiles_[i].x
        ly == cy - tiles_[i].y
    IN /\ lx >= 0 /\ lx < tiles_[i].width
       /\ ly >= 0 /\ ly < tiles_[i].height
       /\ ~PcMasked(PcMaskOf(i)[<<lx, ly>>])

\* (2 * dist)^2 from the canvas pixel to the centre of tile i
Dist2(i, cx, cy) ==
    LET c == Center2(tiles_[i])
        dx == 2 * cx - c[1]
        dy == 2 * cy - c[2]
    IN dx * dx + dy * dy

\* the loop over the centres, from tile i on, in tile order
RECURSIVE ScanCenters(_, _, _, _)
ScanCenters(i, cx, cy, acc) ==
    IF i > Len(tiles_) THEN acc
    ELSE IF ~IsCandidate(i, cx, cy) THEN ScanCenters(i + 1, cx, cy, acc)
    ELSE LET d == Dist2(i, cx, cy)
         IN IF d < acc.minDist
            THEN ScanCenters(i + 1, cx, cy,
                     [minDist |-> d, secondMinDist |-> acc.minDist, closestIdx |-> i])
            ELSE IF d < acc.secondMinDist
            THEN ScanCenters(i + 1, cx, cy, [acc EXCEPT !.secondMinDist = d])
            ELSE ScanCenters(i + 1, cx, cy, acc)

Nearest(cx, cy) ==
    ScanCenters(1, cx, cy,
        [minDist |-> DistMax, secondMinDist |-> DistMax, closestIdx |-> 0])

\* distanceFromFrontier >= c pixels, for an integer c.  distToFrontier is
\* (sqrt(secondMinDist) - sqrt(minDist)) / 4 in the units of Dist2, negated
\* when the tile is not the closest one.
FrontierGe(near, weAreClosest, c) ==
    IF near.secondMinDist = DistMax
    THEN weAreClosest
    ELSE IF weAreClosest
         THEN SqrtDiffGe(near.secondMinDist, near.minDist, 4 * c)
         ELSE SqrtDiffGe(near.minDist, near.secondMinDist, 4 * c)

\* static_cast<uchar>(ratio * 255.0), ratio = (distanceFromFrontier + m) / (2 * m)
GradientValue(near, weAreClosest, m) ==
    LET a == 65025 * near.secondMinDist
        b == 65025 * near.minDist
        d255 == IF weAreClosest THEN FloorSqrtDiff(a, b) ELSE FloorSqrtDiff(b, a)
    IN (1020 * m + d255) \div (8 * m)

\* distanceFromFrontier > overlapMargin instead of >= for the full value
PixelBranchStrictFull(near, weAreClosest, m) ==
    IF ~FrontierGe(near, weAreClosest, -m) THEN "far"
    ELSE IF ~FrontierGe(near, ~weAreClosest, -m) THEN "full"
    ELSE "gradient"

\* a hard partition: a tile that is not the closest one gets nothing
PixelBranchHard(near, weAreClosest, m) ==
    IF ~weAreClosest \/ ~FrontierGe(near, weAreClosest, -m) THEN "far"
    ELSE IF FrontierGe(near, weAreClosest, m) THEN "full"
    ELSE "gradient"

\* the branch the code takes at a pixel that is valid in the tile's own mask
PixelBranch(near, weAreClosest, m) ==
    IF ~FrontierGe(near, weAreClosest, -m) THEN "far"
    ELSE IF FrontierGe(near, weAreClosest, m) THEN "full"
    ELSE "gradient"

\* the value of a cast of NaN or infinity to uchar (a division by zero)
Undefined == 0 - 1

\* maskRow[localX] for tile t at local pixel p
VoronoiPixel(t, p, m) ==
    IF PcMasked(PcMaskOf(t)[p]) THEN 0
    ELSE LET near == Nearest(tiles_[t].x + p[1], tiles_[t].y + p[2])
             weAreClosest == (near.closestIdx = t)
             branch == PixelBranch(near, weAreClosest, m)
         IN CASE branch = "far" -> 0
              [] branch = "full" -> 255
              [] OTHER -> IF m = 0 THEN Undefined ELSE GradientValue(near, weAreClosest, m)

VoronoiMask(t, m) ==
    [p \in Pixels(tiles_[t].width, tiles_[t].height) |-> VoronoiPixel(t, p, m)]

\* the ratio (.) / (2.0 * overlapMargin) is evaluated with overlapMargin = 0
DividesByZero(m) ==
    /\ m = 0
    /\ \E t \in 1 .. Len(tiles_) :
         \E p \in Pixels(tiles_[t].width, tiles_[t].height) :
            /\ ~PcMasked(PcMaskOf(t)[p])
            /\ LET near == Nearest(tiles_[t].x + p[1], tiles_[t].y + p[2])
               IN PixelBranch(near, near.closestIdx = t, m) = "gradient"

-----------------------------------------------------------------------------
(* buildCoverageMask.  An image is [width, height, px]; the null QImage and  *)
(* the empty cv::Mat have width = height = 0.                               *)

NullImage == [width |-> 0, height |-> 0, px |-> <<>>]

Image(w, h, px) == [width |-> w, height |-> h, px |-> px]

IsNull(img) == img.width = 0 \/ img.height = 0

\* qRed(pixel) == 255 && qGreen(pixel) == 0 && qBlue(pixel) == 255
IsMagenta(rgb) == rgb[1] = 255 /\ rgb[2] = 0 /\ rgb[3] = 255

\* the threshold taken one gray level higher: (gray <= 128) ? 255 : 0
BinarizeAbove(gray) == IF gray <= 128 THEN 255 ELSE 0

\* maskRow[x] = (gray < 128) ? 255 : 0
Binarize(gray) == IF gray < 128 THEN 255 ELSE 0

\* cv::distanceTransform(., DIST_L2, 3): the 3x3 chamfer metric in fixed point,
\* 16 fractional bits: 0.955 horizontally and vertically, 1.3693 diagonally
HvDist == 62587
DiagDist == 89738
InitDist == 536870911

Abs(v) == IF v < 0 THEN 0 - v ELSE v
Min2(a, b) == IF a < b THEN a ELSE b
Max2(a, b) == IF a > b THEN a ELSE b

Chamfer(p, z) ==
    LET dx == Abs(p[1] - z[1])
        dy == Abs(p[2] - z[2])
    IN HvDist * (Max2(dx, dy) - Min2(dx, dy)) + DiagDist * Min2(dx, dy)

RECURSIVE SetMin(_, _)
SetMin(S, acc) ==
    IF S = {} THEN acc
    ELSE LET v == CHOOSE u \in S : TRUE
         IN SetMin(S \ {v}, Min2(acc, v))

\* the distance of pixel p to the nearest pixel of zeros
DistanceTo(zeros, p) ==
    IF p \in zeros THEN 0
    ELSE SetMin({Chamfer(p, z) : z \in zeros}, InitDist)

\* borderMask: row 0, the last row, column 0 and the last column are 0
BorderPixels(w, h) ==
    {p \in Pixels(w, h) : p[1] = 0 \/ p[1] = w - 1 \/ p[2] = 0 \/ p[2] = h - 1}

\* convertTo(feathered, CV_8UC1, 255.0) of min(d / featherRadius, 1.0):
\* 255 * d / (65536 * r) rounded to the nearest integer, ties to even
FeatherValue(d, r) ==
    IF d >= 65536 * r THEN 255
    ELSE LET n == 255 * d
             den == 65536 * r
             q == n \div den
             rem == n % den
         IN IF 2 * rem > den \/ (2 * rem = den /\ q % 2 = 1) THEN q + 1 ELSE q

Feather(mask, r) ==
    LET zeros == {p \in Pixels(mask.width, mask.height) : mask.px[p] = 0}
        border == BorderPixels(mask.width, mask.height)
    IN Image(mask.width, mask.height,
             [p \in Pixels(mask.width, mask.height) |->
                 FeatherValue(Min2(DistanceTo(zeros, p), DistanceTo(border, p)), r)])

BuildCoverageMask(source, loadedMask, r, sharp) ==
    IF IsNull(source) THEN NullImage
    ELSE LET mask ==
               IF ~IsNull(loadedMask)
               THEN Image(loadedMask.width, loadedMask.height,
                          [p \in Pixels(loadedMask.width, loadedMask.height) |->
                              IF sharp THEN loadedMask.px[p]
                                       ELSE Binarize(loadedMask.px[p])])
               ELSE Image(source.width, source.height,
                          [p \in Pixels(source.width, source.height) |->
                              IF IsMagenta(source.px[p]) THEN 0 ELSE 255])
         IN IF sharp \/ r <= 1 THEN mask ELSE Feather(mask, r)

-----------------------------------------------------------------------------
(* Number types of the blender.  A short is an integer in -32768 .. 32767.   *)
(* A float (IEEE binary32, never negative here) is <<m, e>>, the value       *)
(* m * 2^e with m = 0 or 2^23 <= m < 2^24; every operation rounds to nearest, *)
(* ties to even.                                                             *)

\* conversion of an int to short, as the compilers do it: modulo 2^16
Wrap16(v) == ((v + 32768) % 65536) - 32768

\* cv::saturate_cast<short>
SaturateShort(v) == IF v < 0 - 32768 THEN 0 - 32768 ELSE IF v > 32767 THEN 32767 ELSE v

\* the quotient of C++ integer division, truncated towards zero
TruncDiv(a, b) ==
    IF (a >= 0) = (b > 0) THEN Abs(a) \div Abs(b) ELSE 0 - (Abs(a) \div Abs(b))

RECURSIVE BitLen(_)
BitLen(v) == IF v = 0 THEN 0 ELSE 1 + BitLen(v \div 2)

FZero == <<0, 0>>

\* the float nearest to (v + s) * 2^e, for an integer 0 <= v < 2^31 and a
\* fraction 0 <= s < 1 that is not 0 exactly when sticky
FRound(v, e, sticky) ==
    IF v = 0 THEN FZero
    ELSE LET n == BitLen(v)
         IN IF n <= 24 THEN <<v * 2 ^ (24 - n), e - (24 - n)>>
            ELSE LET k == n - 24
                     q == v \div 2 ^ k
                     r == v % 2 ^ k
                     half == 2 ^ (k - 1)
                     up == r > half \/ (r = half /\ (sticky \/ q % 2 = 1))
                     m == IF up THEN q + 1 ELSE q
                 IN IF m = 2 ^ 24 THEN <<2 ^ 23, e + k + 1>> ELSE <<m, e + k>>

\* a + b
FAdd(a, b) ==
    IF a[1] = 0 THEN b
    ELSE IF b[1] = 0 THEN a
    ELSE LET hi == IF a[2] >= b[2] THEN a ELSE b
             lo == IF a[2] >= b[2] THEN b ELSE a
             d == hi[2] - lo[2]
         IN IF d >= 26 THEN hi
            ELSE IF d <= 6 THEN FRound(hi[1] * 2 ^ d + lo[1], lo[2], FALSE)
            ELSE FRound(hi[1] * 64 + lo[1] \div 2 ^ (d - 6), hi[2] - 6,
                        lo[1] % 2 ^ (d - 6) # 0)

\* k * a, for an integer 0 <= k < 2^16
FMulInt(k, a) ==
    IF k = 0 \/ a[1] = 0 THEN FZero
    ELSE LET lo0 == k * (a[1] % 4096)
             hi == k * (a[1] \div 4096) + lo0 \div 4096
             lo == lo0 % 4096
             n == BitLen(hi) + 12
             s == IF n > 30 THEN n - 30 ELSE 0
             rest == (hi % 2 ^ s) * 4096 + lo
         IN FRound((hi \div 2 ^ s) * 4096 + rest \div 2 ^ s, a[2] + s, rest % 2 ^ s # 0)

\* a * 2^k
FScale(a, k) == IF a[1] = 0 THEN FZero ELSE <<a[1], a[2] + k>>

\* i more bits of the quotient rem / d, after the bits q
RECURSIVE DivBits(_, _, _, _)
DivBits(rem, d, i, q) ==
    IF i = 0 THEN <<q, rem>>
    ELSE IF 2 * rem >= d THEN DivBits(2 * rem - d, d, i - 1, 2 * q + 1)
                         ELSE DivBits(2 * rem, d, i - 1, 2 * q)

\* a / b, for floats a and b # 0
FDiv(a, b) ==
    IF a[1] = 0 THEN FZero
    ELSE LET q0 == IF a[1] >= b[1] THEN 1 ELSE 0
             t == IF a[1] >= b[1] THEN 24 ELSE 25
             qr == DivBits(a[1] - q0 * b[1], b[1], t, q0)
         IN FRound(qr[1], a[2] - b[2] - t, qr[2] # 0)

\* the float of an integer 0 <= k < 2^24
FFromInt(k) == FRound(k, 0, FALSE)

\* a > b
FGreater(a, b) ==
    IF a[1] = 0 THEN FALSE
    ELSE IF b[1] = 0 THEN TRUE
    ELSE a[2] > b[2] \/ (a[2] = b[2] /\ a[1] > b[1])

\* the float fits an int: its value is below 2^31
FFitsInt(a) == a[1] = 0 \/ a[2] <= 7

\* the integer part of a float below 2^31
FTrunc(a) ==
    IF a[1] = 0 \/ a[2] <= 0 - 24 THEN 0
    ELSE IF a[2] >= 0 THEN a[1] * 2 ^ a[2]
    ELSE a[1] \div 2 ^ (0 - a[2])

\* static const float WEIGHT_EPS = 1e-5f
WEIGHT_EPS == <<10995116, 0 - 40>>

\* the float 1./255. that convertTo(., CV_32F, 1./255.) multiplies by
OneOver255 == <<8421505, 0 - 31>>

-----------------------------------------------------------------------------
(* The OpenCV operations the blender calls.  A cv::Mat is                    *)
(* [width, height, px], px[p] being the tuple of the channel values at       *)
(* pixel p: three shorts for an image, one short or one float for a weight.  *)

Mat(w, h, px) == [width |-> w, height |-> h, px |-> px @@ <<>>]

Channels(m) == DOMAIN m.px[<<0, 0>>]

\* cv::borderInterpolate: delta = 1 for BORDER_REFLECT_101, 0 for BORDER_REFLECT
RECURSIVE BorderInterpolate(_, _, _)
BorderInterpolate(p, len, delta) ==
    IF p >= 0 /\ p < len THEN p
    ELSE IF len = 1 THEN 0
    ELSE IF p < 0 THEN BorderInterpolate(0 - p - 1 + delta, len, delta)
    ELSE BorderInterpolate(len - 1 - (p - len) - delta, len, delta)

\* cv::copyMakeBorder(src, dst, top, bottom, left, right, cv::BORDER_REFLECT)
CopyMakeBorderReflect(src, top, bottom, left, right) ==
    Mat(src.width + left + right, src.height + top + bottom,
        [p \in Pixels(src.width + left + right, src.height + top + bottom) |->
            src.px[<<BorderInterpolate(p[1] - left, src.width, 0),
                     BorderInterpolate(p[2] - top, src.height, 0)>>]])

\* cv::copyMakeBorder(src, dst, top, bottom, left, right, cv::BORDER_CONSTANT)
CopyMakeBorderConstant(src, top, bottom, left, right, zero) ==
    Mat(src.width + left + right, src.height + top + bottom,
        [p \in Pixels(src.width + left + right, src.height + top + bottom) |->
            IF <<p[1] - left, p[2] - top>> \in Pixels(src.width, src.height)
            THEN src.px[<<p[1] - left, p[2] - top>>]
            ELSE <<zero>>])

\* the five taps 1 4 6 4 1 of cv::pyrDown on shorts, in its int work type
DownTaps(t0, t1, t2, t3, t4) == t2 * 6 + (t1 + t3) * 4 + t0 + t4

\* the same on floats, each operation rounded
DownTapsFloat(t0, t1, t2, t3, t4) ==
    FAdd(FAdd(FAdd(FMulInt(6, t2), FMulInt(4, FAdd(t1, t3))), t0), t4)

\* cv::pyrDown of a Mat of shorts: FixPtCast<short, 8> of the 5x5 sum
PyrDownShort(src) ==
    LET w == (src.width + 1) \div 2
        h == (src.height + 1) \div 2
        at(i, sy, c) == src.px[<<BorderInterpolate(i, src.width, 1), sy>>][c]
        row(x, j, c) ==
            LET sy == BorderInterpolate(j, src.height, 1)
            IN DownTaps(at(2 * x - 2, sy, c), at(2 * x - 1, sy, c), at(2 * x, sy, c),
                        at(2 * x + 1, sy, c), at(2 * x + 2, sy, c))
    IN Mat(w, h,
           [p \in Pixels(w, h) |->
               [c \in Channels(src) |->
                   SaturateShort(
                       (DownTaps(row(p[1], 2 * p[2] - 2, c), row(p[1], 2 * p[2] - 1, c),
                                 row(p[1], 2 * p[2], c), row(p[1], 2 * p[2] + 1, c),
                                 row(p[1], 2 * p[2] + 2, c)) + 128) \div 256)]])

\* cv::pyrDown of a Mat of floats: FltCast<float, 8> of the 5x5 sum
PyrDownFloat(src) ==
    LET w == (src.width + 1) \div 2
        h == (src.height + 1) \div 2
        at(i, sy, c) == src.px[<<BorderInterpolate(i, src.width, 1), sy>>][c]
        row(x, j, c) ==
            LET sy == BorderInterpolate(j, src.height, 1)
            IN DownTapsFloat(at(2 * x - 2, sy, c), at(2 * x - 1, sy, c), at(2 * x, sy, c),
                             at(2 * x + 1, sy, c), at(2 * x + 2, sy, c))
    IN Mat(w, h,
           [p \in Pixels(w, h) |->
               [c \in Channels(src) |->
                   FScale(DownTapsFloat(row(p[1], 2 * p[2] - 2, c),
                                        row(p[1], 2 * p[2] - 1, c),
                                        row(p[1], 2 * p[2], c),
                                        row(p[1], 2 * p[2] + 1, c),
                                        row(p[1], 2 * p[2] + 2, c)), 0 - 8)]])

\* the horizontal pass of cv::pyrUp: column dx of the widened source row sy
UpRow(src, dx, sy, c) ==
    LET x == dx \div 2
        at(i) == src.px[<<i, sy>>][c]
        last == src.width - 1
    IN IF src.width = 1 THEN at(0) * 8
       ELSE IF dx % 2 = 1
            THEN IF x = last THEN at(x) * 8 ELSE (at(x) + at(x + 1)) * 4
       ELSE IF x = 0 THEN at(0) * 6 + at(1) * 2
       ELSE IF x = last THEN at(x - 1) + at(x) * 7
       ELSE at(x - 1) + at(x) * 6 + at(x + 1)

\* cv::pyrUp of a Mat of shorts to twice its size: FixPtCast<short, 6>
PyrUpShort(src) ==
    LET w == 2 * src.width
        h == 2 * src.height
        row(dx, sy, c) ==
            UpRow(src, dx, BorderInterpolate(2 * sy, 2 * src.height, 1) \div 2, c)
    IN Mat(w, h,
           [p \in Pixels(w, h) |->
               [c \in Channels(src) |->
                   LET y == p[2] \div 2
                   IN IF p[2] % 2 = 0
                      THEN SaturateShort((row(p[1], y - 1, c) + row(p[1], y, c) * 6
                                          + row(p[1], y + 1, c) + 32) \div 64)
                      ELSE SaturateShort(((row(p[1], y, c) + row(p[1], y + 1, c)) * 4
                                          + 32) \div 64)]])

\* cv::subtract and cv::add on Mats of shorts, saturating
Subtract(a, b) ==
    Mat(a.width, a.height,
        [p \in Pixels(a.width, a.height) |->
            [c \in Channels(a) |-> SaturateShort(a.px[p][c] - b.px[p][c])]])

Add(a, b) ==
    Mat(a.width, a.height,
        [p \in Pixels(a.width, a.height) |->
            [c \in Channels(a) |-> SaturateShort(a.px[p][c] + b.px[p][c])]])

-----------------------------------------------------------------------------
(* DualMaskMultiBandBlender *)

Rect(x, y, w, h) == [x |-> x, y |-> y, width |-> w, height |-> h]

NoMat == [width |-> 0, height |-> 0, px |-> <<>>]

ZeroShorts == <<0, 0, 0>>

\* the zero of a weight: setTo(0) on a Mat of weight_type
ZeroWeight(weight_type) == IF weight_type = "CV_32F" THEN FZero ELSE 0

\* Mat::create(h, w, type) followed by setTo(cv::Scalar::all(0))
ZeroMat(w, h, zero) == Mat(w, h, [p \in Pixels(w, h) |-> zero])

\* the Gaussian pyramid pyr[0], pyrDown(pyr[0]), ... of num_levels + 1 Mats
RECURSIVE GaussPyr(_, _, _)
GaussPyr(m, num_levels, weight_type) ==
    IF num_levels = 0 THEN <<m>>
    ELSE <<m>> \o GaussPyr(IF weight_type = "CV_32F" THEN PyrDownFloat(m)
                                                    ELSE PyrDownShort(m),
                           num_levels - 1, weight_type)

\* createLaplacePyr of a CV_16SC3 image
CreateLaplacePyr(img, num_levels) ==
    LET pyr == GaussPyr(img, num_levels, "CV_16S")
    IN [i \in 1 .. (num_levels + 1) |->
           IF i <= num_levels THEN Subtract(pyr[i], PyrUpShort(pyr[i + 1]))
                              ELSE pyr[i]]

\* restoreImageFromLaplacePyr: pyr[0] once levels i and above are collapsed
RECURSIVE RestoreFrom(_, _, _)
RestoreFrom(pyr, i, upper) ==
    LET level == IF i = Len(pyr) THEN pyr[i] ELSE Add(PyrUpShort(upper), pyr[i])
    IN IF i = 1 THEN level ELSE RestoreFrom(pyr, i - 1, level)

RestoreImageFromLaplacePyr(pyr) == RestoreFrom(pyr, Len(pyr), NoMat)

\* static_cast<short>(f) of a float f >= 0 taken with a sign: exact when the
\* value fits a short; otherwise undefined, and the build either truncates
\* the int conversion to 16 bits ("wrap") or clamps ("saturate")
CastShort(negative, f, cast) ==
    LET v == IF FFitsInt(f) THEN FTrunc(f) ELSE 2 ^ 30
        sv == IF negative THEN 0 - v ELSE v
    IN IF FFitsInt(f) /\ sv >= 0 - 32768 /\ sv <= 32767 THEN sv
       ELSE IF cast = "saturate" THEN SaturateShort(sv)
       ELSE IF FFitsInt(f) THEN Wrap16(sv) ELSE 0

\* static_cast<short>(row[x].x / (weight_row[x] + WEIGHT_EPS))
NormalizeFloat(v, w, cast) ==
    CastShort(v < 0, FDiv(FFromInt(Abs(v)), FAdd(w, WEIGHT_EPS)), cast)

\* static_cast<short>((row[x].x << 8) / w), w = weight_row[x] + 1; the
\* division by w = 0 is undefined: where it does not trap it yields 0
NormalizeShort(v, w) == IF w + 1 = 0 THEN 0 ELSE Wrap16(TruncDiv(v * 256, w + 1))

\* normalizeUsingWeightMap(weight, src)
NormalizeUsingWeightMap(weight, src, weight_type, cast) ==
    Mat(src.width, src.height,
        [p \in Pixels(src.width, src.height) |->
            [c \in 1 .. 3 |->
                IF weight_type = "CV_32F"
                THEN NormalizeFloat(src.px[p][c], weight.px[p][1], cast)
                ELSE NormalizeShort(src.px[p][c], weight.px[p][1])]])

\* the int normalisation divides by w = weight_row[x] + 1 = 0
NormalizeDividesByZero(weights, weight_type) ==
    /\ weight_type = "CV_16S"
    /\ \E i \in 1 .. Len(weights) :
          \E p \in Pixels(weights[i].width, weights[i].height) :
              weights[i].px[p][1] = 0 - 1

\* the least k with 2^k >= len: ceil(log(max_len) / log(2.0))
RECURSIVE CeilLog2(_)
CeilLog2(len) == IF len <= 1 THEN 0 ELSE 1 + CeilLog2((len + 1) \div 2)

\* len += ((1 << n) - len % (1 << n)) % (1 << n)
PadTo(len, n) ==
    LET m == 2 ^ n
    IN len + ((m - (len % m)) % m)

\* the sizes of the pyramid levels 0 .. n under a level-0 size
RECURSIVE LevelSizes(_, _, _)
LevelSizes(w, h, n) ==
    IF n = 0 THEN <<<<w, h>>>>
    ELSE <<<<w, h>>>> \o LevelSizes((w + 1) \div 2, (h + 1) \div 2, n - 1)

\* static_cast<int>(std::ceil(std::log(max_len) / std::log(2.0))): the
\* quotient of the two doubles has the ceiling of the exact logarithm for
\* every length below 2^31 but 2^29, where it is 29.000000000000004
CeilLogQuotient(len) == IF len = 2 ^ 29 THEN 30 ELSE CeilLog2(len)

\* the band count, the padded rectangle and the level sizes prepare computes
PreparedSizes(roi, actual_num_bands) ==
    LET n == Min2(actual_num_bands, CeilLogQuotient(Max2(roi.width, roi.height)))
        padded == Rect(roi.x, roi.y, PadTo(roi.width, n), PadTo(roi.height, n))
    IN [num_bands |-> n,
        dst_roi |-> padded,
        sizes |-> LevelSizes(padded.width, padded.height, n)]

\* what prepare(dst_roi) computes for a blender of actual_num_bands bands
Prepared(roi, actual_num_bands, weight_type) ==
    LET s == PreparedSizes(roi, actual_num_bands)
        n == s.num_bands
        sizes == s.sizes
    IN [num_bands |-> n,
        dst_roi |-> s.dst_roi,
        laplace |-> [i \in 1 .. (n + 1) |-> ZeroMat(sizes[i][1], sizes[i][2], ZeroShorts)],
        weights |-> [i \in 1 .. (n + 1) |->
                        ZeroMat(sizes[i][1], sizes[i][2], <<ZeroWeight(weight_type)>>)]]

\* the support region without the snap of its corner to the grid of 2^n
FeedRegionUnsnapped(tl, cols, rows, roi, n) ==
    LET gap == 3 * 2 ^ n
        x0 == Max2(roi.x, tl[1] - gap)
        y0 == Max2(roi.y, tl[2] - gap)
    IN [tl_new |-> <<x0, y0>>,
        br_new |-> <<Min2(roi.x + roi.width, tl[1] + cols + gap),
                     Min2(roi.y + roi.height, tl[2] + rows + gap)>>]

\* the support region of feed: tl_new and br_new for an image of cols x rows
\* at tl, in a destination roi with n bands
FeedRegion(tl, cols, rows, roi, n) ==
    LET m == 2 ^ n
        gap == 3 * m
        x0 == roi.x + ((Max2(roi.x, tl[1] - gap) - roi.x) \div m) * m
        y0 == roi.y + ((Max2(roi.y, tl[2] - gap) - roi.y) \div m) * m
        width == PadTo(Min2(roi.x + roi.width, tl[1] + cols + gap) - x0, n)
        height == PadTo(Min2(roi.y + roi.height, tl[2] + rows + gap) - y0, n)
        dx == Max2(x0 + width - (roi.x + roi.width), 0)
        dy == Max2(y0 + height - (roi.y + roi.height), 0)
    IN [tl_new |-> <<x0 - dx, y0 - dy>>,
        br_new |-> <<x0 + width - dx, y0 + height - dy>>]

\* convertTo(weight_map, CV_32F, 1./255.), or convertTo(weight_map, CV_16S)
\* followed by the addition of 1 where the mask is not 0
WeightMap(mask, weight_type) ==
    Mat(mask.width, mask.height,
        [p \in Pixels(mask.width, mask.height) |->
            IF weight_type = "CV_32F"
            THEN <<FMulInt(mask.px[p][1], OneOver255)>>
            ELSE <<mask.px[p][1] + (IF mask.px[p][1] # 0 THEN 1 ELSE 0)>>])

\* static_cast<short>(src * blend), or short((src * blend) >> 8); the
\* blend weights never pass 1, so the product of the float branch fits a short
Weighted(src, blend, weight_type) ==
    IF weight_type = "CV_32F"
    THEN CastShort(src < 0, FMulInt(Abs(src), blend), "wrap")
    ELSE Wrap16((src * blend) \div 256)

\* dst_weight_row[x] += weight_row[x]
AddWeight(sum, weight, weight_type) ==
    IF weight_type = "CV_32F" THEN FAdd(sum, weight) ELSE Wrap16(sum + weight)

\* the accumulation with the blend weight left out: dst_row[x] += src_row[x]
AccumulateLaplaceUnweighted(level, src, blend, rc, weight_type) ==
    Mat(level.width, level.height,
        [p \in Pixels(level.width, level.height) |->
            LET q == <<p[1] - rc.x, p[2] - rc.y>>
            IN IF q \in Pixels(rc.width, rc.height)
               THEN [c \in 1 .. 3 |-> Wrap16(level.px[p][c] + src.px[q][c])]
               ELSE level.px[p]])

\* one level of the accumulation loop of feed, on the rectangle rc of the level
AccumulateLaplace(level, src, blend, rc, weight_type) ==
    Mat(level.width, level.height,
        [p \in Pixels(level.width, level.height) |->
            LET q == <<p[1] - rc.x, p[2] - rc.y>>
            IN IF q \in Pixels(rc.width, rc.height)
               THEN [c \in 1 .. 3 |->
                        Wrap16(level.px[p][c]
                               + Weighted(src.px[q][c], blend.px[q][1], weight_type))]
               ELSE level.px[p]])

AccumulateWeight(level, weight, rc, weight_type) ==
    Mat(level.width, level.height,
        [p \in Pixels(level.width, level.height) |->
            LET q == <<p[1] - rc.x, p[2] - rc.y>>
            IN IF q \in Pixels(rc.width, rc.height)
               THEN <<AddWeight(level.px[p][1], weight.px[q][1], weight_type)>>
               ELSE level.px[p]])

\* the border sizes with every negative one taken as 0 in a prepared blender
FeedBordersClamped(c, roi, n) ==
    LET region == FeedRegion(c.tl, c.img.width, c.img.height, roi, n)
        floor == IF roi.width = 0 THEN 0 - 2 ^ 20 ELSE 0
    IN [top |-> Max2(floor, c.tl[2] - region.tl_new[2]),
        left |-> Max2(floor, c.tl[1] - region.tl_new[1]),
        bottom |-> Max2(floor, region.br_new[2] - c.tl[2] - c.img.height),
        right |-> Max2(floor, region.br_new[1] - c.tl[1] - c.img.width)]

\* the border sizes feed passes to cv::copyMakeBorder, which asserts that
\* none is negative
FeedBorders(c, roi, n) ==
    LET region == FeedRegion(c.tl, c.img.width, c.img.height, roi, n)
    IN [top |-> c.tl[2] - region.tl_new[2],
        left |-> c.tl[1] - region.tl_new[1],
        bottom |-> region.br_new[2] - c.tl[2] - c.img.height,
        right |-> region.br_new[1] - c.tl[1] - c.img.width]

\* the rectangle of every level taken as that of level 0
LevelRectUnhalved(region, roi, i) ==
    Rect(region.tl_new[1] - roi.x, region.tl_new[2] - roi.y,
         region.br_new[1] - region.tl_new[1], region.br_new[2] - region.tl_new[2])

\* cv::Rect rc(x_tl, y_tl, x_br - x_tl, y_br - y_tl) of the level of index
\* i - 1, the four coordinates being halved (/= 2) after every level
LevelRect(region, roi, i) ==
    LET x_tl == (region.tl_new[1] - roi.x) \div 2 ^ (i - 1)
        y_tl == (region.tl_new[2] - roi.y) \div 2 ^ (i - 1)
        x_br == (region.br_new[1] - roi.x) \div 2 ^ (i - 1)
        y_br == (region.br_new[2] - roi.y) \div 2 ^ (i - 1)
    IN Rect(x_tl, y_tl, x_br - x_tl, y_br - y_tl)

\* feed(img, weight_mask, blend_mask, tl) on the accumulators acc = [laplace, weights]
FeedInto(acc, c, roi, n, weight_type) ==
    LET region == FeedRegion(c.tl, c.img.width, c.img.height, roi, n)
        top == FeedBorders(c, roi, n).top
        left == FeedBorders(c, roi, n).left
        bottom == FeedBorders(c, roi, n).bottom
        right == FeedBorders(c, roi, n).right
        src_pyr_laplace ==
            CreateLaplacePyr(CopyMakeBorderReflect(c.img, top, bottom, left, right), n)
        weight_pyr_gauss ==
            GaussPyr(CopyMakeBorderConstant(WeightMap(c.weight_mask, weight_type),
                                            top, bottom, left, right,
                                            ZeroWeight(weight_type)),
                     n, weight_type)
        blend_pyr_gauss ==
            GaussPyr(CopyMakeBorderConstant(WeightMap(c.blend_mask, weight_type),
                                            top, bottom, left, right,
                                            ZeroWeight(weight_type)),
                     n, weight_type)
        rc(i) == LevelRect(region, roi, i)
    IN [laplace |-> [i \in 1 .. (n + 1) |->
                        AccumulateLaplace(acc.laplace[i], src_pyr_laplace[i],
                                          blend_pyr_gauss[i], rc(i), weight_type)],
        weights |-> [i \in 1 .. (n + 1) |->
                        AccumulateWeight(acc.weights[i], weight_pyr_gauss[i],
                                         rc(i), weight_type)]]

\* feed(img, mask, tl) of a conventional multi-band blender, which keeps one
\* mask per tile: a single Gaussian pyramid of the mask weighs the Laplacian
\* levels (L += L_src * mask) and is summed into the weights (Wsum += mask)
SingleMaskFeedInto(acc, img, mask, tl, roi, n, weight_type) ==
    LET region == FeedRegion(tl, img.width, img.height, roi, n)
        top == tl[2] - region.tl_new[2]
        left == tl[1] - region.tl_new[1]
        bottom == region.br_new[2] - tl[2] - img.height
        right == region.br_new[1] - tl[1] - img.width
        src_pyr_laplace ==
            CreateLaplacePyr(CopyMakeBorderReflect(img, top, bottom, left, right), n)
        weight_pyr_gauss ==
            GaussPyr(CopyMakeBorderConstant(WeightMap(mask, weight_type),
                                            top, bottom, left, right,
                                            ZeroWeight(weight_type)),
                     n, weight_type)
        x_tl(i) == (region.tl_new[1] - roi.x) \div 2 ^ (i - 1)
        y_tl(i) == (region.tl_new[2] - roi.y) \div 2 ^ (i - 1)
        x_br(i) == (region.br_new[1] - roi.x) \div 2 ^ (i - 1)
        y_br(i) == (region.br_new[2] - roi.y) \div 2 ^ (i - 1)
        inside(i, p) ==
            /\ p[1] >= x_tl(i) /\ p[1] < x_br(i)
            /\ p[2] >= y_tl(i) /\ p[2] < y_br(i)
        at(i, p) == <<p[1] - x_tl(i), p[2] - y_tl(i)>>
    IN [laplace |->
            [i \in 1 .. (n + 1) |->
                LET level == acc.laplace[i]
                    src == src_pyr_laplace[i]
                    weight == weight_pyr_gauss[i]
                IN Mat(level.width, level.height,
                       [p \in Pixels(level.width, level.height) |->
                           IF inside(i, p)
                           THEN [c \in 1 .. 3 |->
                                    Wrap16(level.px[p][c]
                                           + Weighted(src.px[at(i, p)][c],
                                                      weight.px[at(i, p)][1],
                                                      weight_type))]
                           ELSE level.px[p]])],
        weights |->
            [i \in 1 .. (n + 1) |->
                LET level == acc.weights[i]
                    weight == weight_pyr_gauss[i]
                IN Mat(level.width, level.height,
                       [p \in Pixels(level.width, level.height) |->
                           IF inside(i, p)
                           THEN <<AddWeight(level.px[p][1], weight.px[at(i, p)][1],
                                            weight_type)>>
                           ELSE level.px[p]])]]

\* cv::compare(dst_band_weights_0(dst_rc), WEIGHT_EPS, dst_mask_, cv::CMP_GT)
MaskOf(weight, weight_type) ==
    IF weight_type = "CV_32F"
    THEN (IF FGreater(weight, WEIGHT_EPS) THEN 255 ELSE 0)
    ELSE (IF weight > 0 THEN 255 ELSE 0)

\* what blend hands out for the accumulators acc: dst and dst_mask
Blended(acc, final, weight_type, cast) ==
    LET restored ==
            RestoreImageFromLaplacePyr(
                [i \in 1 .. Len(acc.laplace) |->
                    NormalizeUsingWeightMap(acc.weights[i], acc.laplace[i],
                                            weight_type, cast)])
        mask == [p \in Pixels(final.width, final.height) |->
                    MaskOf(acc.weights[1].px[p][1], weight_type)]
    IN [dst |-> Mat(final.width, final.height,
                    [p \in Pixels(final.width, final.height) |->
                        IF mask[p] = 0 THEN ZeroShorts ELSE restored.px[p]]),
        dst_mask |-> Mat(final.width, final.height,
                         [p \in Pixels(final.width, final.height) |-> <<mask[p]>>])]

-----------------------------------------------------------------------------
(* The state after OrthoLoader::loadFromDirectory and the parameter checks *)
(* of main: finalized tiles, the files beside them, the parameters.        *)

TileSet == [x : TileXs, y : {0}, width : TileWidths, height : TileHeights]

Layouts == UNION {[1 .. n -> TileSet] : n \in TileCounts}

Gray100 == <<100, 100, 100>>

\* a raster of the tile's size, one colour
RasterOf(tile) ==
    Image(tile.width, tile.height,
          [p \in Pixels(tile.width, tile.height) |-> Gray100])

\* a PC_ mask of the tile's size: valid (0) but for its top right pixel
MaskFile(tile, gray) ==
    [state |-> "ok", width |-> tile.width, height |-> tile.height,
     px |-> [p \in Pixels(tile.width, tile.height) |->
                IF p = <<tile.width - 1, 0>> THEN gray ELSE 0]]

\* no tile has a PC_ mask, or exactly one has
MaskChoices(ts) ==
    {[i \in 1 .. Len(ts) |-> NoFile]}
    \cup {[i \in 1 .. Len(ts) |-> IF i = t THEN MaskFile(ts[i], g) ELSE NoFile] :
             t \in 1 .. Len(ts), g \in MaskGrays}

NoMasks(n) == [i \in 1 .. n |-> NullImage]

\* the blender before main constructs it
NoCaller == [roi |-> Rect(0, 0, 0, 0), pool |-> {}, feeds |-> 0]

\* OrthoLoader::TfwRecord as default-constructed
ZeroRecord ==
    [scaleX |-> 0, rotationY |-> 0, rotationX |-> 0, scaleY |-> 0,
     translateX |-> 0, translateY |-> 0]

\* QSize(): an invalid size
InvalidSize == <<0 - 1, 0 - 1>>

NoDirectory == [exists |-> FALSE]

\* parseTfw not called
NoTfw ==
    /\ tfwFile = NoFile
    /\ record = ZeroRecord
    /\ parsed = "none"

\* the resolver's fields as OrthoLoader's constructor leaves them; the mask
\* generator and the blender read none of them
NoResolver ==
    /\ directory = NoDirectory
    /\ loadResult = "none"
    /\ canvasSize_ = InvalidSize
    /\ pixelWidth_ = 0
    /\ pixelHeight_ = 0
    /\ hasReference_ = FALSE
    /\ referenceTfw_ = ZeroRecord
    /\ referenceCanvasSize_ = InvalidSize

\* main not followed
NoMain ==
    /\ pc = "none"
    /\ numBands = 0
    /\ stages = <<>>
    /\ exitStatus = "none"
    /\ diagnostics = <<>>
    /\ images = {}
    /\ masks = {}
    /\ fedAny = FALSE
    /\ output = NoMat

NoBlender ==
    /\ phase = "none"
    /\ weight_type_ = "CV_32F"
    /\ actual_num_bands_ = 0
    /\ num_bands_ = 0
    /\ dst_roi_ = Rect(0, 0, 0, 0)
    /\ dst_roi_final_ = Rect(0, 0, 0, 0)
    /\ dst_pyr_laplace_ = <<>>
    /\ dst_band_weights_ = <<>>
    /\ dst = NoMat
    /\ dst_mask = NoMat
    /\ fed = <<>>
    /\ caller = NoCaller

InitLoaded(ts) ==
    /\ NoBlender
    /\ NoTfw
    /\ NoResolver
    /\ NoMain
    /\ tiles_ = ts
    /\ pcFiles \in MaskChoices(ts)
    /\ rasters = [i \in 1 .. Len(ts) |-> RasterOf(ts[i])]
    /\ generated = {}
    /\ voronoiFiles = NoMasks(Len(ts))
    /\ genResult = "none"
    /\ errorMessage = ""
    /\ divByZero = FALSE
    /\ tileIndex = 0
    /\ weightMasks = NoMasks(Len(ts))
    /\ blendMasks = NoMasks(Len(ts))

Init ==
    /\ \E ts \in Layouts : InitLoaded(ts)
    /\ overlapMargin \in (0 - 1) .. MaxMargin
    /\ featherRadius \in FeatherRadii
    /\ useVoronoiMasks = TRUE

\* Scenario S2 and its neighbours: two 10x10 tiles, A at (0,0) and B at (bx,0)
S2Offsets == {4, 6, 8}

S2Tiles(bx) ==
    <<[x |-> 0, y |-> 0, width |-> 10, height |-> 10],
      [x |-> bx, y |-> 0, width |-> 10, height |-> 10]>>

InitS2 ==
    /\ \E bx \in S2Offsets : InitLoaded(S2Tiles(bx))
    /\ overlapMargin \in (0 - 1) .. MaxMargin
    /\ featherRadius \in FeatherRadii
    /\ useVoronoiMasks = TRUE

\* the save loop recording the path of every mask but the last one's
SavedMasksButLast(failAt) ==
    IF failAt = 0 THEN 1 .. (Len(tiles_) - 1) ELSE 1 .. (failAt - 1)

\* the tiles whose generatedMaskPath the save loop sets: every tile, or the
\* tiles before the one whose mask cv::imwrite fails to save
SavedMasks(failAt) ==
    IF failAt = 0 THEN 1 .. Len(tiles_) ELSE 1 .. (failAt - 1)

\* OrthoLoader::generateVoronoiMasks(overlapMargin), called when use_voronoi.
\* failAt is the tile whose mask cv::imwrite fails to save (0: none fails).
Generates ==
    IF \/ Len(tiles_) = 0
       \/ overlapMargin < 0
       \/ \E i \in 1 .. Len(tiles_) : ~PcMaskUsable(i)
    THEN /\ genResult' = "error"
         /\ errorMessage' =
               IF Len(tiles_) = 0 THEN "No tiles loaded."
               ELSE IF overlapMargin < 0 THEN "Invalid overlap margin: must be >= 0."
               ELSE "Failed to load or invalid PC_ mask"
         /\ UNCHANGED <<generated, voronoiFiles, divByZero>>
    ELSE \E failAt \in 0 .. Len(tiles_) :
            LET written == SavedMasks(failAt)
            IN /\ genResult' = IF failAt = 0 THEN "ok" ELSE "error"
               /\ errorMessage' =
                     IF failAt = 0 THEN "" ELSE "Failed to save Voronoi mask"
               /\ generated' = written
               /\ voronoiFiles' =
                     [i \in 1 .. Len(tiles_) |->
                         IF i \in written
                         THEN Image(tiles_[i].width, tiles_[i].height,
                                    VoronoiMask(i, overlapMargin))
                         ELSE NullImage]
               /\ divByZero' = DividesByZero(overlapMargin)

\* OrthoLoader::generateVoronoiMasks(overlapMargin), called on loaded tiles
GenerateVoronoiMasks ==
    /\ useVoronoiMasks
    /\ genResult = "none"
    /\ tileIndex = 0
    /\ pc = "none"
    /\ Generates
    /\ UNCHANGED <<tiles_, pcFiles, rasters, overlapMargin, featherRadius,
                   useVoronoiMasks, tileIndex, weightMasks, blendMasks, blenderVars,
                   tfwVars, resolverVars, mainVars>>

\* the validity mask the driver loads for tile i (tile.mask), null when absent
LoadPCMask(i) ==
    IF pcFiles[i].state = "ok"
    THEN Image(pcFiles[i].width, pcFiles[i].height, pcFiles[i].px)
    ELSE NullImage

\* main, the feed loop up to the masks of one tile: the weight mask W from
\* the PC_ mask, the blend mask B from the Voronoi mask or a clone of W
BuildMasks ==
    /\ tileIndex < Len(tiles_)
    /\ useVoronoiMasks => genResult = "ok"
    /\ LET i == tileIndex + 1
           w == BuildCoverageMask(rasters[i], LoadPCMask(i), featherRadius, FALSE)
           b == IF useVoronoiMasks /\ i \in generated /\ ~IsNull(voronoiFiles[i])
                THEN BuildCoverageMask(rasters[i], voronoiFiles[i], featherRadius, TRUE)
                ELSE w
       IN /\ weightMasks' = [weightMasks EXCEPT ![i] = w]
          /\ blendMasks' = [blendMasks EXCEPT ![i] = b]
          /\ tileIndex' = i
    /\ UNCHANGED <<tiles_, pcFiles, rasters, generated, voronoiFiles, overlapMargin,
                   featherRadius, useVoronoiMasks, genResult, errorMessage, divByZero,
                   blenderVars, tfwVars, resolverVars, mainVars>>

Next == GenerateVoronoiMasks \/ BuildMasks

Spec == Init /\ [][Next]_vars

SpecS2 == InitS2 /\ [][Next]_vars

-----------------------------------------------------------------------------
(* The blender and its caller.  A contribution is what one feed is given:   *)
(* a CV_16SC3 image, the weight mask W, the blend mask B and the top-left    *)
(* corner.  The caller holds the rectangle it prepares the blender with, the *)
(* contributions it may feed, and how many feeds it makes.                  *)

\* an image of value at its corner rising by slope per pixel, under flat masks
Contribution(x, y, w, h, value, slope, W, B) ==
    [img |-> Mat(w, h, [p \in Pixels(w, h) |->
                           <<value + slope * p[1], value + slope * p[2], value>>]),
     weight_mask |-> Mat(w, h, [p \in Pixels(w, h) |-> <<W>>]),
     blend_mask |-> Mat(w, h, [p \in Pixels(w, h) |-> <<B>>]),
     tl |-> <<x, y>>]

\* the tiles fed on a canvas of w x h: the whole canvas, or one of its halves
CanvasTiles(w, h) ==
    {Rect(0, 0, w, h)}
    \cup (IF w > 1 THEN {Rect(0, 0, w \div 2, h), Rect(w \div 2, 0, w \div 2, h)}
                   ELSE {})

\* a caller that feeds tiles of a canvas, and one that reaches off the canvas
CanvasCaller(w, h) ==
    [roi |-> Rect(0, 0, w, h),
     pool |-> {Contribution(t.x, t.y, t.width, t.height, 100, 16, m[1], m[2]) :
                  t \in CanvasTiles(w, h), m \in MaskPairs}
              \cup {Contribution(0 - 1, 0, 1, 1, 100, 0, 255, 255)},
     feeds |-> MaxFeeds]

\* a caller that feeds three one-pixel contributions of differing weights
OrderCaller ==
    [roi |-> Rect(0, 0, 1, 1),
     pool |-> {Contribution(0, 0, 1, 1, 240, 0, W, 255) : W \in OrderGrays},
     feeds |-> OrderFeeds]

\* a caller that feeds the same fully weighted pixel again and again
AccumCaller ==
    [roi |-> Rect(0, 0, 1, 1),
     pool |-> {Contribution(0, 0, 1, 1, 100, 0, 255, 255)},
     feeds |-> AccumFeeds]

\* a caller that passes one mask as W and as B, as main does without Voronoi
SameMaskCaller(w, h) ==
    [roi |-> Rect(0, 0, w, h),
     pool |-> {Contribution(t.x, t.y, t.width, t.height, 100, 16, g, g) :
                  t \in CanvasTiles(w, h), g \in SameGrays},
     feeds |-> MaxFeeds]

SameCallers == {SameMaskCaller(s[1], s[2]) : s \in SameSizes}

CanvasCallers == {CanvasCaller(s[1], s[2]) : s \in CanvasSizes}

\* DualMaskMultiBandBlender(num_bands, weight_type), on its own: no tiles loaded
ConstructedWith(callers, bands) ==
    /\ NoTfw
    /\ NoResolver
    /\ NoMain
    /\ tiles_ = <<>>
    /\ pcFiles = <<>>
    /\ rasters = <<>>
    /\ generated = {}
    /\ voronoiFiles = <<>>
    /\ genResult = "none"
    /\ errorMessage = ""
    /\ divByZero = FALSE
    /\ tileIndex = 0
    /\ weightMasks = <<>>
    /\ blendMasks = <<>>
    /\ overlapMargin = 0
    /\ featherRadius = 1
    /\ useVoronoiMasks = FALSE
    /\ phase = "constructed"
    /\ weight_type_ \in WeightTypes
    /\ actual_num_bands_ \in bands
    /\ num_bands_ = 0
    /\ dst_roi_ = Rect(0, 0, 0, 0)
    /\ dst_roi_final_ = Rect(0, 0, 0, 0)
    /\ dst_pyr_laplace_ = <<>>
    /\ dst_band_weights_ = <<>>
    /\ dst = NoMat
    /\ dst_mask = NoMat
    /\ fed = <<>>
    /\ caller \in callers

Constructed(callers) == ConstructedWith(callers, BandCounts)

InitBlend == Constructed(CanvasCallers)

InitOrder == Constructed({OrderCaller})

InitAccum == Constructed({AccumCaller})

InitSame == Constructed(SameCallers)

\* prepare(dst_roi), before anything is blended
Prepare ==
    /\ phase \in {"constructed", "prepared"}
    /\ LET r == Prepared(caller.roi, actual_num_bands_, weight_type_)
       IN /\ dst_roi_final_' = caller.roi
          /\ num_bands_' = r.num_bands
          /\ dst_roi_' = r.dst_roi
          /\ dst_pyr_laplace_' = r.laplace
          /\ dst_band_weights_' = r.weights
    /\ phase' = "prepared"
    /\ fed' = <<>>
    /\ UNCHANGED <<weight_type_, actual_num_bands_, dst, dst_mask, caller, loaderVars,
                   tfwVars, resolverVars, mainVars>>

\* feed(img, weight_mask, blend_mask, tl); cv::copyMakeBorder throws when a
\* border size is negative
Feed ==
    /\ phase \in {"constructed", "prepared"}
    /\ Len(fed) < caller.feeds
    /\ \E c \in caller.pool :
          LET b == FeedBorders(c, dst_roi_, num_bands_)
          IN IF b.top < 0 \/ b.bottom < 0 \/ b.left < 0 \/ b.right < 0
             THEN /\ phase' = "crashed"
                  /\ UNCHANGED <<dst_pyr_laplace_, dst_band_weights_, fed>>
             ELSE LET acc == FeedInto([laplace |-> dst_pyr_laplace_,
                                       weights |-> dst_band_weights_],
                                      c, dst_roi_, num_bands_, weight_type_)
                  IN /\ dst_pyr_laplace_' = acc.laplace
                     /\ dst_band_weights_' = acc.weights
                     /\ fed' = Append(fed, c)
                     /\ UNCHANGED phase
    /\ UNCHANGED <<weight_type_, actual_num_bands_, num_bands_, dst_roi_, dst_roi_final_,
                   dst, dst_mask, caller, loaderVars, tfwVars, resolverVars, mainVars>>

\* blend(dst, dst_mask).  A float that does not fit a short is cast as the
\* build casts it, and an int division by zero traps or yields 0.
Blend ==
    /\ phase = "prepared"
    /\ \E cast \in (IF weight_type_ = "CV_32F" THEN {"wrap", "saturate"} ELSE {"wrap"}),
          division \in (IF NormalizeDividesByZero(dst_band_weights_, weight_type_)
                        THEN {"trap", "zero"} ELSE {"none"}) :
          IF division = "trap"
          THEN /\ phase' = "crashed"
               /\ UNCHANGED <<dst_pyr_laplace_, dst_band_weights_, dst, dst_mask>>
          ELSE LET out == Blended([laplace |-> dst_pyr_laplace_,
                                   weights |-> dst_band_weights_],
                                  dst_roi_final_, weight_type_, cast)
               IN /\ dst' = out.dst
                  /\ dst_mask' = out.dst_mask
                  /\ dst_pyr_laplace_' = <<>>
                  /\ dst_band_weights_' = <<>>
                  /\ phase' = "blended"
    /\ UNCHANGED <<weight_type_, actual_num_bands_, num_bands_, dst_roi_, dst_roi_final_,
                   fed, caller, loaderVars, tfwVars, resolverVars, mainVars>>

NextBlend == Prepare \/ Feed \/ Blend

SpecBlend == InitBlend /\ [][NextBlend]_vars

SpecOrder == InitOrder /\ [][NextBlend]_vars

SpecAccum == InitAccum /\ [][NextBlend]_vars

SpecSame == InitSame /\ [][NextBlend]_vars

-----------------------------------------------------------------------------
(* Properties of the masks.                                                  *)

TilePixels(t) == Pixels(tiles_[t].width, tiles_[t].height)

Canvas(t, p) == <<tiles_[t].x + p[1], tiles_[t].y + p[2]>>

Local(t, c) == <<c[1] - tiles_[t].x, c[2] - tiles_[t].y>>

Covers(t, c) == Local(t, c) \in TilePixels(t)

CanvasPixels == UNION {{Canvas(t, p) : p \in TilePixels(t)} : t \in 1 .. Len(tiles_)}

\* the canvas pixel c is valid in tile t: covered, with a validity gray below 128
ValidAt(t, c) == Covers(t, c) /\ PcMaskOf(t)[Local(t, c)] < 128

\* the generated Voronoi mask of tile t at the canvas pixel c
VAt(t, c) == voronoiFiles[t].px[Local(t, c)]

\* the tiles the generator counts at the canvas pixel c
Candidates(c) == {i \in 1 .. Len(tiles_) : IsCandidate(i, c[1], c[2])}

\* C3: every pixel whose validity-mask gray is >= 128 is 0 in the weight mask
\* W and 0 in the generated Voronoi mask, hence in the blend mask B.
C3_ValidityMaskRespected ==
    \A t \in 1 .. Len(tiles_) :
        pcFiles[t].state = "ok" =>
            \A p \in TilePixels(t) :
                pcFiles[t].px[p] >= 128 =>
                    /\ t \in generated => voronoiFiles[t].px[p] = 0
                    /\ t <= tileIndex =>
                          weightMasks[t].px[p] = 0 /\ blendMasks[t].px[p] = 0

\* C4, as stated: at a canvas pixel valid in two tiles and equidistant from
\* their centres the two masks add up to 255, at most 1 off, for every
\* margin > 0, whatever other tiles cover the pixel.
C4_BandSymmetryAnyTiles ==
    genResult = "ok" /\ overlapMargin > 0 =>
        \A a, b \in 1 .. Len(tiles_) : \A c \in CanvasPixels :
            /\ a # b
            /\ ValidAt(a, c) /\ ValidAt(b, c)
            /\ Dist2(a, c[1], c[2]) = Dist2(b, c[1], c[2])
            => VAt(a, c) + VAt(b, c) \in 254 .. 256

\* C4, amended: at a canvas pixel valid in two tiles and equidistant from
\* their centres the two masks add up to 255, at most 1 off, for every
\* margin > 0, provided no tile the generator counts at that pixel is
\* strictly nearer than the two.
C4_BandSymmetryNearestTwo ==
    genResult = "ok" /\ overlapMargin > 0 =>
        \A a, b \in 1 .. Len(tiles_) : \A c \in CanvasPixels :
            /\ a # b
            /\ ValidAt(a, c) /\ ValidAt(b, c)
            /\ Dist2(a, c[1], c[2]) = Dist2(b, c[1], c[2])
            /\ \A k \in Candidates(c) : Dist2(k, c[1], c[2]) >= Dist2(a, c[1], c[2])
            => VAt(a, c) + VAt(b, c) \in 254 .. 256

\* two tiles at equal distance from a pixel valid in both, a third tile
\* counted at that pixel and not nearer, masks generated with a margin > 0
C4_Witness ==
    /\ genResult = "ok" /\ overlapMargin > 0
    /\ \E a, b, k \in 1 .. Len(tiles_) : \E c \in CanvasPixels :
          /\ a # b /\ k # a /\ k # b
          /\ ValidAt(a, c) /\ ValidAt(b, c) /\ k \in Candidates(c)
          /\ Dist2(a, c[1], c[2]) = Dist2(b, c[1], c[2])
          /\ \A j \in Candidates(c) : Dist2(j, c[1], c[2]) >= Dist2(a, c[1], c[2])
          /\ VAt(a, c) + VAt(b, c) = 254

\* round(255 * (offset + m) / (2 * m)), to the nearest integer
RoundedRamp(near, weAreClosest, m) ==
    LET a == 65025 * near.secondMinDist
        b == 65025 * near.minDist
        d255 == IF weAreClosest THEN FloorSqrtDiff(a, b) ELSE FloorSqrtDiff(b, a)
    IN (1024 * m + d255) \div (8 * m)

\* C5: with a margin m > 0 the value written at a valid pixel is 255 when
\* offset >= m, 0 when offset < -m, and round(255 * (offset + m) / (2 * m))
\* otherwise, rounded to the nearest integer.
C5_RoundedRampWritten ==
    genResult = "ok" /\ overlapMargin > 0 =>
        \A t \in 1 .. Len(tiles_) : \A p \in TilePixels(t) :
            PcMaskOf(t)[p] < 128 =>
                LET c == Canvas(t, p)
                    near == Nearest(c[1], c[2])
                    weAreClosest == (near.closestIdx = t)
                IN voronoiFiles[t].px[p] =
                      IF ~FrontierGe(near, weAreClosest, 0 - overlapMargin) THEN 0
                      ELSE IF FrontierGe(near, weAreClosest, overlapMargin) THEN 255
                      ELSE RoundedRamp(near, weAreClosest, overlapMargin)

\* C6: at a canvas pixel with a candidate and f >= margin, the nearest
\* candidate has the value 255 and every other tile covering the pixel has 0,
\* for every margin >= 0.
C6_ExclusiveOwnership ==
    genResult = "ok" =>
        \A c \in CanvasPixels :
            LET near == Nearest(c[1], c[2])
            IN near.closestIdx # 0 /\ FrontierGe(near, TRUE, overlapMargin) =>
                  \A t \in 1 .. Len(tiles_) :
                      Covers(t, c) =>
                          VAt(t, c) = IF t = near.closestIdx THEN 255 ELSE 0

\* C7: with margin 0 the generator does not reject the margin, evaluates no
\* division by zero, and every pixel of every mask it writes is 0 or 255.
C7_ZeroMarginBinary ==
    overlapMargin = 0 /\ genResult # "none" =>
        /\ ~divByZero
        /\ \A t \in generated : \A p \in TilePixels(t) :
              voronoiFiles[t].px[p] \in {0, 255}
        /\ genResult = "error" =>
              errorMessage \in {"No tiles loaded.", "Failed to save Voronoi mask"}

\* margin 0, masks generated, a pixel at equal distance from two candidates,
\* and a pixel left at 0
C7_Witness ==
    /\ overlapMargin = 0 /\ genResult = "ok"
    /\ \E c \in CanvasPixels :
          LET near == Nearest(c[1], c[2])
          IN near.closestIdx # 0 /\ near.minDist = near.secondMinDist
    /\ \E t \in generated : \E p \in TilePixels(t) :
          PcMaskOf(t)[p] < 128 /\ voronoiFiles[t].px[p] = 0

\* C8: at a valid pixel of a tile where no other tile is valid, the mask of
\* the tile is 255, for every margin >= 0.
C8_SoleCoverageFull ==
    genResult = "ok" =>
        \A t \in 1 .. Len(tiles_) : \A p \in TilePixels(t) :
            /\ PcMaskOf(t)[p] < 128
            /\ \A u \in 1 .. Len(tiles_) : u # t => ~ValidAt(u, Canvas(t, p))
            => voronoiFiles[t].px[p] = 255

\* scenario S2 has run: A at (0,0), B at (6,0), no validity mask, margin 2
S2Generated ==
    /\ tiles_ = S2Tiles(6)
    /\ \A t \in 1 .. 2 : pcFiles[t].state = "none"
    /\ overlapMargin = 2
    /\ genResult = "ok"

\* row 5 of the mask of tile t, from canvas column lo to canvas column hi
Row5(t, lo, hi) == [X \in lo .. hi |-> VAt(t, <<X, 5>>)]

\* C9, as stated: in scenario S2 the centres are (5,5) and (10.5,5), the
\* frontier lies at X = 7.75 (column 8 is nearer to B) and the band with
\* margin 2 is [5.75, 9.75] (column 6 of A is inside the band).
C9_ScenarioS2AsStated ==
    S2Generated =>
        /\ Center2(tiles_[1]) = <<10, 10>>
        /\ Center2(tiles_[2]) = <<21, 10>>
        /\ Dist2(2, 8, 5) < Dist2(1, 8, 5)
        /\ VAt(1, <<6, 5>>) < 255

\* C9, amended: in scenario S2 the centres are (5,5) and (11,5), the frontier
\* lies at X = 8 and the band with margin 2 is [6, 10]: on row 5 the mask of A
\* is 255 up to column 6, then 191, 127, 63, and the mask of B is 0 at column
\* 6, then 63, 127, 191, and 255 from column 10 on.
C9_ScenarioS2 ==
    S2Generated =>
        /\ Center2(tiles_[1]) = <<10, 10>>
        /\ Center2(tiles_[2]) = <<22, 10>>
        /\ \A Y \in 0 .. 9 : Dist2(1, 8, Y) = Dist2(2, 8, Y)
        /\ Row5(1, 0, 6) = [X \in 0 .. 6 |-> 255]
        /\ Row5(1, 7, 9) = (7 :> 191) @@ (8 :> 127) @@ (9 :> 63)
        /\ Row5(2, 6, 9) = (6 :> 0) @@ (7 :> 63) @@ (8 :> 127) @@ (9 :> 191)
        /\ Row5(2, 10, 15) = [X \in 10 .. 15 |-> 255]

\* scenario S2 has run and the masks have a gradient
C9_Witness ==
    S2Generated /\ VAt(1, <<7, 5>>) = 191 /\ VAt(2, <<7, 5>>) = 63

-----------------------------------------------------------------------------
(* Properties of the blender.                                                *)

\* the pixels of the rectangle handed to prepare
FinalPixels == Pixels(dst_roi_final_.width, dst_roi_final_.height)

\* the pixel of contribution c at canvas pixel p
LocalOf(c, p) == <<p[1] - c.tl[1], p[2] - c.tl[2]>>

\* contribution c reaches canvas pixel p
Reaches(c, p) == LocalOf(c, p) \in Pixels(c.img.width, c.img.height)

WeightAt(c, p) == c.weight_mask.px[LocalOf(c, p)][1]

BlendAt(c, p) == c.blend_mask.px[LocalOf(c, p)][1]

\* some fed tile's weight mask is nonzero at p
Covered(p) == \E k \in DOMAIN fed : Reaches(fed[k], p) /\ WeightAt(fed[k], p) # 0

\* C1: after prepare, any feeds and blend, the output mask is 255 at a canvas
\* pixel exactly when some fed tile's weight mask is nonzero there, and the
\* composite is zero wherever the output mask is 0.
C1_CanvasCoverage ==
    phase = "blended" =>
        \A p \in FinalPixels :
            /\ (dst_mask.px[p][1] = 255) <=> Covered(p)
            /\ dst_mask.px[p][1] = 0 => dst.px[p] = ZeroShorts

\* fed tile k is the only tile that reaches p, with W nonzero and B = 255 there
SingleOwner(k, p) ==
    /\ Reaches(fed[k], p)
    /\ WeightAt(fed[k], p) # 0
    /\ BlendAt(fed[k], p) = 255
    /\ \A j \in DOMAIN fed : j # k => ~Reaches(fed[j], p)

\* C2: at a canvas pixel reached by exactly one fed tile, outside its seam
\* band (B = 255), the composite equals the tile's pixel within one unit of
\* int16 rounding, whatever the tile's weight W there.
C2_SingleOwnerIdentity ==
    phase = "blended" =>
        \A p \in FinalPixels : \A k \in DOMAIN fed :
            SingleOwner(k, p) =>
                \A c \in 1 .. 3 :
                    Abs(dst.px[p][c] - fed[k].img.px[LocalOf(fed[k], p)][c])
                        <= 1

\* the accumulators after prepare and the feeds fed[order[1]] .. fed[order[n]]
RECURSIVE FedInOrder(_, _)
FedInOrder(order, n) ==
    IF n = 0
    THEN LET r == Prepared(dst_roi_final_, actual_num_bands_, weight_type_)
         IN [laplace |-> r.laplace, weights |-> r.weights]
    ELSE LET before == FedInOrder(order, n - 1)
         IN FeedInto([laplace |-> before.laplace @@ <<>>,
                      weights |-> before.weights @@ <<>>],
                     fed[order[n]], dst_roi_, num_bands_, weight_type_)

\* C10: for a fixed prepare and a fixed set of contributions, the
\* accumulators L[i] and Wsum[i] of every level after all the feeds are the
\* same for every permutation of the feed order.
C10_FeedOrderIndependence ==
    phase = "prepared" =>
        \A order \in Permutations(DOMAIN fed) :
            LET acc == FedInOrder(order, Len(fed))
            IN /\ acc.laplace = dst_pyr_laplace_
               /\ acc.weights = dst_band_weights_

\* the accumulators of the conventional blender after prepare and the feeds
\* fed[1] .. fed[n], each with its weight mask as the one mask
RECURSIVE SingleMaskFed(_)
SingleMaskFed(n) ==
    IF n = 0
    THEN LET r == Prepared(dst_roi_final_, actual_num_bands_, weight_type_)
         IN [laplace |-> r.laplace, weights |-> r.weights]
    ELSE LET before == SingleMaskFed(n - 1)
         IN SingleMaskFeedInto([laplace |-> before.laplace @@ <<>>,
                                weights |-> before.weights @@ <<>>],
                               fed[n].img, fed[n].weight_mask, fed[n].tl,
                               dst_roi_, num_bands_, weight_type_)

\* every feed so far passed one mask as W and as B
SameMasks == \A k \in DOMAIN fed : fed[k].weight_mask = fed[k].blend_mask

\* C11: when every feed passes W = B, the accumulators after every feed and
\* the output of blend are those of a conventional single-mask multi-band
\* blender (L += L_src * mask, Wsum += mask per level) on the same inputs.
C11_TwoMaskAbstraction ==
    SameMasks =>
        \A acc \in {SingleMaskFed(Len(fed))} :
            /\ phase = "prepared" =>
                  /\ acc.laplace = dst_pyr_laplace_
                  /\ acc.weights = dst_band_weights_
            /\ phase = "blended" =>
                  \E cast \in {"wrap", "saturate"} :
                      \A out \in {Blended(acc, dst_roi_final_, weight_type_, cast)} :
                          dst = out.dst /\ dst_mask = out.dst_mask

\* two feeds of one feathered mask (W = B = 128) have been blended over bands
C11_Witness ==
    /\ phase = "blended"
    /\ num_bands_ > 0
    /\ Len(fed) = 2
    /\ \A k \in DOMAIN fed : WeightAt(fed[k], fed[k].tl) = 128 /\ BlendAt(fed[k], fed[k].tl) = 128

-----------------------------------------------------------------------------
(* The metadata resolver: OrthoLoader::loadFromDirectory and what it calls.  *)
(* A world file is its lines, a line the fields blanks separate on it.  A    *)
(* number is kept in millionths, so that 0.000001 is 1 and 1 is 1000000.     *)

MaxLines == 7

\* QString::toDouble on the texts the model writes into world files
DecimalValue ==
    "0" :> 0 @@ "0.000001" :> 1 @@ "0.5" :> 500000 @@ "1" :> 1000000
    @@ "-1" :> (0 - 1000000) @@ "2" :> 2000000 @@ "-2" :> (0 - 2000000)
    @@ "3" :> 3000000 @@ "4" :> 4000000 @@ "5" :> 5000000 @@ "-5" :> (0 - 5000000)
    @@ "9" :> 9000000 @@ "10" :> 10000000

\* line.toDouble(&ok): one field, and that a number
ToDouble(line) ==
    IF Len(line) = 1 /\ line[1] \in DOMAIN DecimalValue
    THEN [ok |-> TRUE, number |-> DecimalValue[line[1]]]
    ELSE [ok |-> FALSE, number |-> 0]

\* parseTfw's loop: while (!stream.atEnd() && valueCount < 6)
RECURSIVE ReadValues(_, _, _)
ReadValues(lines, i, values) ==
    IF i > Len(lines) \/ Len(values) >= 6 THEN [ok |-> TRUE, values |-> values]
    ELSE IF lines[i] = <<>> THEN ReadValues(lines, i + 1, values)
    ELSE IF ~ToDouble(lines[i]).ok THEN [ok |-> FALSE, values |-> values]
    ELSE ReadValues(lines, i + 1, Append(values, ToDouble(lines[i]).number))

\* parseTfw with record->rotationY and record->rotationX taken from each other's line
ParseTfwSwapped(file, rec) ==
    IF file.state # "ok"
    THEN [ok |-> FALSE, record |-> rec, error |-> "Unable to open"]
    ELSE LET r == ReadValues(file.lines, 1, <<>>)
         IN IF ~r.ok
            THEN [ok |-> FALSE, record |-> rec, error |-> "Invalid numeric value"]
            ELSE IF Len(r.values) # 6
            THEN [ok |-> FALSE, record |-> rec, error |-> "does not contain 6 values"]
            ELSE [ok |-> TRUE,
                  record |-> [scaleX |-> r.values[1], rotationY |-> r.values[3],
                              rotationX |-> r.values[2], scaleY |-> r.values[4],
                              translateX |-> r.values[5], translateY |-> r.values[6]],
                  error |-> ""]

\* OrthoLoader::parseTfw(filePath, record, errorMessage)
ParseTfw(file, rec) ==
    IF file.state # "ok"
    THEN [ok |-> FALSE, record |-> rec, error |-> "Unable to open"]
    ELSE LET r == ReadValues(file.lines, 1, <<>>)
         IN IF ~r.ok
            THEN [ok |-> FALSE, record |-> rec, error |-> "Invalid numeric value"]
            ELSE IF Len(r.values) # 6
            THEN [ok |-> FALSE, record |-> rec, error |-> "does not contain 6 values"]
            ELSE [ok |-> TRUE,
                  record |-> [scaleX |-> r.values[1], rotationY |-> r.values[2],
                              rotationX |-> r.values[3], scaleY |-> r.values[4],
                              translateX |-> r.values[5], translateY |-> r.values[6]],
                  error |-> ""]

\* the lines of the world files parseTfw is tried on: blank, a number, another
\* number, a word, two numbers on one line
TfwLines == {<<>>, <<"1">>, <<"-5">>, <<"abc">>, <<"1", "2">>}

TfwFiles ==
    {[state |-> "missing"]}
    \cup {[state |-> "ok", lines |-> l] :
             l \in UNION {[1 .. n -> TfwLines] : n \in 0 .. MaxLines}}

\* a record parsed earlier, as referenceTfw_ holds one when a directory is reloaded
EarlierRecord ==
    [scaleX |-> 2000000, rotationY |-> 0, rotationX |-> 0, scaleY |-> 0 - 2000000,
     translateX |-> 4000000, translateY |-> 9000000]

\* no tiles, no masks: the loader with nothing loaded
NoTiles ==
    /\ tiles_ = <<>>
    /\ pcFiles = <<>>
    /\ rasters = <<>>
    /\ generated = {}
    /\ voronoiFiles = <<>>
    /\ genResult = "none"
    /\ errorMessage = ""
    /\ divByZero = FALSE
    /\ tileIndex = 0
    /\ weightMasks = <<>>
    /\ blendMasks = <<>>
    /\ overlapMargin = 0
    /\ featherRadius = 1
    /\ useVoronoiMasks = FALSE

InitTfw ==
    /\ NoTiles
    /\ NoBlender
    /\ NoResolver
    /\ NoMain
    /\ tfwFile \in TfwFiles
    /\ record \in {ZeroRecord, EarlierRecord}
    /\ parsed = "none"

\* a call of parseTfw(tfwFile, &record, &errorMessage)
ParseTfwCall ==
    /\ parsed = "none"
    /\ LET r == ParseTfw(tfwFile, record)
       IN /\ parsed' = IF r.ok THEN "ok" ELSE "error"
          /\ record' = r.record
          /\ errorMessage' = r.error
    /\ UNCHANGED <<tfwFile, tiles_, pcFiles, rasters, generated, voronoiFiles,
                   overlapMargin, featherRadius, useVoronoiMasks, genResult, divByZero,
                   tileIndex, weightMasks, blendMasks, blenderVars, resolverVars,
                   mainVars>>

NextTfw == ParseTfwCall

SpecTfw == InitTfw /\ [][NextTfw]_vars

-----------------------------------------------------------------------------
(* loadFromDirectory.  A directory holds Orthophotomosaic.tfw and            *)
(* MTDOrtho.xml, or lacks them, and its other world files in the order       *)
(* QDir::entryList gives them, each with the raster of its base name and     *)
(* the PC_ mask resolveMaskPath finds for that raster.                       *)

kRotationTolerance == 0

kResolutionTolerance == 0

NearlyZero(value, tolerance) == Abs(value) <= tolerance

\* std::lround(p / q) for q > 0: the nearest integer, halves away from zero
LRound(p, q) ==
    IF p >= 0 THEN (2 * p + q) \div (2 * q)
              ELSE 0 - ((2 * (0 - p) + q) \div (2 * q))

\* ensureRotationIsZero with a tolerance of one millionth
EnsureRotationIsZeroTolerant(rec) ==
    NearlyZero(rec.rotationX, 1) /\ NearlyZero(rec.rotationY, 1)

\* OrthoLoader::ensureRotationIsZero
EnsureRotationIsZero(rec) ==
    NearlyZero(rec.rotationX, kRotationTolerance)
    /\ NearlyZero(rec.rotationY, kRotationTolerance)

\* ensureResolutionConsistency comparing the widths only
EnsureResolutionConsistencyWidthOnly(rec, pw, ph) ==
    LET width == Abs(rec.scaleX)
        height == Abs(rec.scaleY)
    IN IF width <= 0 \/ height <= 0
       THEN [ok |-> FALSE, error |-> "Invalid pixel size", pixelWidth |-> pw,
             pixelHeight |-> ph]
       ELSE IF pw = 0 /\ ph = 0
       THEN [ok |-> TRUE, error |-> "", pixelWidth |-> width, pixelHeight |-> height]
       ELSE IF ~NearlyZero(pw - width, kResolutionTolerance)
       THEN [ok |-> FALSE, error |-> "uses a different resolution",
             pixelWidth |-> pw, pixelHeight |-> ph]
       ELSE [ok |-> TRUE, error |-> "", pixelWidth |-> pw, pixelHeight |-> ph]

\* OrthoLoader::ensureResolutionConsistency, on pixelWidth_ = pw, pixelHeight_ = ph
EnsureResolutionConsistency(rec, pw, ph) ==
    LET width == Abs(rec.scaleX)
        height == Abs(rec.scaleY)
    IN IF width <= 0 \/ height <= 0
       THEN [ok |-> FALSE, error |-> "Invalid pixel size", pixelWidth |-> pw,
             pixelHeight |-> ph]
       ELSE IF pw = 0 /\ ph = 0
       THEN [ok |-> TRUE, error |-> "", pixelWidth |-> width, pixelHeight |-> height]
       ELSE IF \/ ~NearlyZero(pw - width, kResolutionTolerance)
               \/ ~NearlyZero(ph - height, kResolutionTolerance)
       THEN [ok |-> FALSE, error |-> "uses a different resolution",
             pixelWidth |-> pw, pixelHeight |-> ph]
       ELSE [ok |-> TRUE, error |-> "", pixelWidth |-> pw, pixelHeight |-> ph]

\* OrthoLoader::computeTileOffset
ComputeTileOffset(rec, pw, ph) ==
    IF pw <= 0 \/ ph <= 0
    THEN [ok |-> FALSE, error |-> "Missing resolution metadata", x |-> 0, y |-> 0]
    ELSE [ok |-> TRUE, error |-> "", x |-> LRound(rec.translateX, pw),
          y |-> LRound(0 - rec.translateY, ph)]

\* QString::toInt on the texts the model writes into MTDOrtho.xml
IntValue == "0" :> 0 @@ "1" :> 1 @@ "4" :> 4 @@ "8" :> 8 @@ "13" :> 13

\* QSize::isValid() && !QSize::isEmpty()
UsableSize(size) == size[1] > 0 /\ size[2] > 0

\* OrthoLoader::parseMTDOrtho: the first NombrePixels element decides
ParseMTDOrtho(file) ==
    IF file.state # "ok"
    THEN [ok |-> FALSE, error |-> "Unable to open", size |-> InvalidSize]
    ELSE IF ~file.found
    THEN [ok |-> FALSE, error |-> "NombrePixels not found", size |-> InvalidSize]
    ELSE IF Len(file.parts) # 2
    THEN [ok |-> FALSE, error |-> "Invalid NombrePixels format", size |-> InvalidSize]
    ELSE IF \/ file.parts[1] \notin DOMAIN IntValue
            \/ file.parts[2] \notin DOMAIN IntValue
            \/ IntValue[file.parts[1]] <= 0
            \/ IntValue[file.parts[2]] <= 0
    THEN [ok |-> FALSE, error |-> "Invalid pixel dimensions", size |-> InvalidSize]
    ELSE [ok |-> TRUE, error |-> "",
          size |-> <<IntValue[file.parts[1]], IntValue[file.parts[2]]>>]

\* the loop of loadFromDirectory over the world files, from the i-th on;
\* st holds tiles_, the files of the tiles, pixelWidth_ and pixelHeight_
RECURSIVE LoadEntries(_, _, _)
LoadEntries(entries, i, st) ==
    IF i > Len(entries) THEN st
    ELSE LET entry == entries[i]
             tfw == ParseTfw(entry.tfw, ZeroRecord)
             res == EnsureResolutionConsistency(tfw.record, st.pixelWidth,
                                                st.pixelHeight)
             offset == ComputeTileOffset(tfw.record, res.pixelWidth, res.pixelHeight)
             seen == [st EXCEPT !.pixelWidth = res.pixelWidth,
                                !.pixelHeight = res.pixelHeight]
         IN IF ~tfw.ok THEN [st EXCEPT !.ok = FALSE, !.error = tfw.error]
            ELSE IF ~EnsureRotationIsZero(tfw.record)
            THEN [st EXCEPT !.ok = FALSE, !.error = "Expected zero rotation"]
            ELSE IF ~res.ok THEN [st EXCEPT !.ok = FALSE, !.error = res.error]
            ELSE IF entry.raster.state = "none" THEN LoadEntries(entries, i + 1, seen)
            ELSE IF entry.raster.state # "ok"
            THEN [seen EXCEPT !.ok = FALSE, !.error = "Cannot read image dimensions"]
            ELSE IF IsNull(entry.raster.image)
            THEN [seen EXCEPT !.ok = FALSE, !.error = "Invalid image dimensions"]
            ELSE IF ~offset.ok THEN [seen EXCEPT !.ok = FALSE, !.error = offset.error]
            ELSE LoadEntries(entries, i + 1,
                     [seen EXCEPT
                         !.tiles = Append(@, [x |-> offset.x, y |-> offset.y,
                                              width |-> entry.raster.image.width,
                                              height |-> entry.raster.image.height]),
                         !.rasters = Append(@, entry.raster.image),
                         !.pcFiles = Append(@, entry.mask)])

RECURSIVE MinOf(_)
MinOf(S) ==
    LET v == CHOOSE e \in S : TRUE
    IN IF S = {v} THEN v ELSE Min2(v, MinOf(S \ {v}))

RECURSIVE MaxOf(_)
MaxOf(S) ==
    LET v == CHOOSE e \in S : TRUE
    IN IF S = {v} THEN v ELSE Max2(v, MaxOf(S \ {v}))

\* the tiles moved by (-dx, -dy)
Shifted(tiles, dx, dy) ==
    [i \in 1 .. Len(tiles) |-> [tiles[i] EXCEPT !.x = @ - dx, !.y = @ - dy]]

\* finalizeTiles placing the tiles at their world offsets, unshifted
FinalizeTilesUnshifted(tiles, pw, ph, hasReference, reference, referenceSize) ==
    IF tiles = <<>>
    THEN [ok |-> FALSE, error |-> "No TIFF images were loaded.", tiles |-> tiles,
          canvas |-> InvalidSize]
    ELSE IF pw <= 0 \/ ph <= 0
    THEN [ok |-> FALSE, error |-> "Invalid pixel size metadata.", tiles |-> tiles,
          canvas |-> InvalidSize]
    ELSE [ok |-> TRUE, error |-> "", tiles |-> tiles,
          canvas |-> <<MaxOf({Max2(0, tiles[i].x + tiles[i].width) :
                                 i \in 1 .. Len(tiles)}),
                       MaxOf({Max2(0, tiles[i].y + tiles[i].height) :
                                 i \in 1 .. Len(tiles)})>>]

\* OrthoLoader::finalizeTiles
FinalizeTiles(tiles, pw, ph, hasReference, reference, referenceSize) ==
    IF tiles = <<>>
    THEN [ok |-> FALSE, error |-> "No TIFF images were loaded.", tiles |-> tiles,
          canvas |-> InvalidSize]
    ELSE IF pw <= 0 \/ ph <= 0
    THEN [ok |-> FALSE, error |-> "Invalid pixel size metadata.", tiles |-> tiles,
          canvas |-> InvalidSize]
    ELSE LET all == 1 .. Len(tiles)
         IN IF hasReference
            THEN LET refX == LRound(reference.translateX, pw)
                     refY == LRound(0 - reference.translateY, ph)
                     moved == Shifted(tiles, refX, refY)
                     minX == MinOf({moved[i].x : i \in all})
                     minY == MinOf({moved[i].y : i \in all})
                     maxX == MaxOf({moved[i].x + moved[i].width : i \in all})
                     maxY == MaxOf({moved[i].y + moved[i].height : i \in all})
                 IN IF UsableSize(referenceSize)
                    THEN [ok |-> TRUE, error |-> "", tiles |-> moved,
                          canvas |-> referenceSize]
                    ELSE [ok |-> TRUE, error |-> "",
                          tiles |-> Shifted(moved, minX, minY),
                          canvas |-> <<maxX - minX, maxY - minY>>]
            ELSE LET minX == MinOf({tiles[i].x : i \in all})
                     minY == MinOf({tiles[i].y : i \in all})
                     moved == Shifted(tiles, minX, minY)
                 IN [ok |-> TRUE, error |-> "", tiles |-> moved,
                     canvas |-> <<MaxOf({Max2(0, moved[i].x + moved[i].width) :
                                            i \in all}),
                                  MaxOf({Max2(0, moved[i].y + moved[i].height) :
                                            i \in all})>>]

\* QDir::entryList(QDir::Files | QDir::Readable): the world files it lists
Listed(entries) == SelectSeq(entries, LAMBDA e : e.tfw.state = "ok")

\* OrthoLoader::loadFromDirectory(directoryPath, errorMessage): what it
\* returns and how it leaves the loader's fields
LoadedFrom(dir) ==
    LET cleared == [ok |-> TRUE, error |-> "", tiles |-> <<>>, rasters |-> <<>>,
                    pcFiles |-> <<>>, pixelWidth |-> 0, pixelHeight |-> 0]
        failed(msg, l, hasRef, ref, refSize) ==
            [ok |-> FALSE, error |-> msg, tiles |-> l.tiles, rasters |-> l.rasters,
             pcFiles |-> l.pcFiles, pixelWidth |-> l.pixelWidth,
             pixelHeight |-> l.pixelHeight, canvas |-> InvalidSize,
             hasReference |-> hasRef, reference |-> ref, referenceSize |-> refSize]
    IN IF dir.path = ""
       THEN failed("No directory selected.", cleared, FALSE, referenceTfw_,
                   referenceCanvasSize_)
       ELSE IF ~dir.exists
       THEN failed("Directory does not exist", cleared, FALSE, referenceTfw_,
                   referenceCanvasSize_)
       ELSE
       LET both == dir.reference.state # "none" /\ dir.metadata.state # "none"
           ref == IF both THEN ParseTfw(dir.reference, referenceTfw_)
                  ELSE [ok |-> TRUE, record |-> referenceTfw_, error |-> ""]
           mtd == IF both THEN ParseMTDOrtho(dir.metadata)
                  ELSE [ok |-> TRUE, error |-> "", size |-> referenceCanvasSize_]
           start == IF both
                    THEN [cleared EXCEPT !.pixelWidth = Abs(ref.record.scaleX),
                                         !.pixelHeight = Abs(ref.record.scaleY)]
                    ELSE cleared
           loaded == LoadEntries(Listed(dir.entries), 1, start)
           final == FinalizeTiles(loaded.tiles, loaded.pixelWidth, loaded.pixelHeight,
                                  both, ref.record, mtd.size)
       IN IF ~ref.ok
          THEN failed(ref.error, cleared, FALSE, ref.record, referenceCanvasSize_)
          ELSE IF both /\ ~EnsureRotationIsZero(ref.record)
          THEN failed("Expected zero rotation", cleared, FALSE, ref.record,
                      referenceCanvasSize_)
          ELSE IF ~mtd.ok
          THEN failed(mtd.error, cleared, FALSE, ref.record, referenceCanvasSize_)
          ELSE IF dir.reference.state # "ok" /\ Listed(dir.entries) = <<>>
          THEN failed("No TFW files found", start, both, ref.record, mtd.size)
          ELSE IF ~loaded.ok
          THEN failed(loaded.error, loaded, both, ref.record, mtd.size)
          ELSE IF ~final.ok
          THEN failed(final.error, loaded, both, ref.record, mtd.size)
          ELSE [ok |-> TRUE, error |-> "", tiles |-> final.tiles,
                rasters |-> loaded.rasters, pcFiles |-> loaded.pcFiles,
                pixelWidth |-> loaded.pixelWidth, pixelHeight |-> loaded.pixelHeight,
                canvas |-> final.canvas, hasReference |-> both,
                reference |-> ref.record, referenceSize |-> mtd.size]

\* the call loader.loadFromDirectory(directory, &errorMessage) and its effect
\* on the loader; no tile holds an image when it returns
Loads ==
    \E r \in {LoadedFrom(directory)} :
        /\ loadResult' = IF r.ok THEN "ok" ELSE "error"
        /\ errorMessage' = r.error
        /\ tiles_' = r.tiles
        /\ rasters' = r.rasters
        /\ pcFiles' = r.pcFiles
        /\ pixelWidth_' = r.pixelWidth
        /\ pixelHeight_' = r.pixelHeight
        /\ canvasSize_' = r.canvas
        /\ hasReference_' = r.hasReference
        /\ referenceTfw_' = r.reference
        /\ referenceCanvasSize_' = r.referenceSize
        /\ generated' = {}
        /\ voronoiFiles' = NoMasks(Len(r.tiles))
        /\ weightMasks' = NoMasks(Len(r.tiles))
        /\ blendMasks' = NoMasks(Len(r.tiles))
        /\ images' = {}
        /\ masks' = {}

\* a world file of six lines, one number a line
WorldFile(scaleX, rotationY, rotationX, scaleY, translateX, translateY) ==
    [state |-> "ok",
     lines |-> <<<<scaleX>>, <<rotationY>>, <<rotationX>>, <<scaleY>>,
                 <<translateX>>, <<translateY>>>>]

\* the texts the world files of the tiles are written with
TileScales == {<<"1", "-1">>, <<"2", "-2">>, <<"1", "-2">>, <<"0", "-1">>}

TileRotations == {<<"0", "0">>, <<"0.000001", "0">>, <<"0", "0.000001">>}

TileTranslateXs == {"5", "9"}

TileTranslateYs == {"-5", "0"}

\* a raster of 4x4, a raster without pixels, no raster of the base name
TileRasters ==
    {[state |-> "ok", image |-> RasterOf([width |-> 4, height |-> 4])],
     [state |-> "ok", image |-> NullImage],
     [state |-> "none"]}

TileEntries ==
    {[tfw |-> WorldFile(s[1], r[1], r[2], s[2], tx, ty), raster |-> ra, mask |-> NoFile] :
        s \in TileScales, r \in TileRotations, tx \in TileTranslateXs,
        ty \in TileTranslateYs, ra \in TileRasters}

EntryCounts == {0, 1, 2}

\* MTDOrtho.xml declaring a canvas of 13x4, and one declaring a width only
Metadata13x4 == [state |-> "ok", found |-> TRUE, parts |-> <<"13", "4">>]

MetadataShort == [state |-> "ok", found |-> TRUE, parts |-> <<"13">>]

\* Orthophotomosaic.tfw and MTDOrtho.xml: absent, alone, or both
References ==
    {[reference |-> NoFile, metadata |-> NoFile],
     [reference |-> NoFile, metadata |-> Metadata13x4],
     [reference |-> WorldFile("1", "0", "0", "-1", "0", "0"), metadata |-> NoFile],
     [reference |-> WorldFile("1", "0.000001", "0", "-1", "0", "0"), metadata |-> NoFile],
     [reference |-> WorldFile("1", "0", "0", "-1", "0", "0"), metadata |-> Metadata13x4],
     [reference |-> WorldFile("1", "0", "0", "-1", "5", "-5"), metadata |-> Metadata13x4],
     [reference |-> WorldFile("2", "0", "0", "-2", "0", "0"), metadata |-> Metadata13x4],
     [reference |-> WorldFile("1", "0", "0.000001", "-1", "0", "0"),
      metadata |-> Metadata13x4],
     [reference |-> WorldFile("1", "0", "0", "-1", "0", "0"), metadata |-> MetadataShort],
     [reference |-> WorldFile("0", "0", "0", "0", "0", "0"), metadata |-> Metadata13x4]}

Directories ==
    {[path |-> "", exists |-> FALSE, reference |-> NoFile, metadata |-> NoFile,
      entries |-> <<>>],
     [path |-> "in", exists |-> FALSE, reference |-> NoFile, metadata |-> NoFile,
      entries |-> <<>>]}
    \cup {[path |-> "in", exists |-> TRUE, reference |-> r.reference,
           metadata |-> r.metadata, entries |-> e] :
             r \in References,
             e \in UNION {[1 .. n -> TileEntries] : n \in EntryCounts}}

\* an OrthoLoader as constructed, about to load one of the directories
Unloaded(directories) ==
    /\ NoTiles
    /\ NoBlender
    /\ NoTfw
    /\ NoMain
    /\ directory \in directories
    /\ loadResult = "none"
    /\ canvasSize_ = InvalidSize
    /\ pixelWidth_ = 0
    /\ pixelHeight_ = 0
    /\ hasReference_ = FALSE
    /\ referenceTfw_ = ZeroRecord
    /\ referenceCanvasSize_ = InvalidSize

InitLoad == Unloaded(Directories)

\* OrthoLoader::loadFromDirectory, called on its own
LoadFromDirectory ==
    /\ pc = "none"
    /\ loadResult = "none"
    /\ directory # NoDirectory
    /\ Loads
    /\ UNCHANGED <<directory, overlapMargin, featherRadius, useVoronoiMasks, genResult,
                   divByZero, tileIndex, blenderVars, tfwVars, pc, numBands, stages,
                   exitStatus, diagnostics, fedAny, output>>

NextLoad == LoadFromDirectory

SpecLoad == InitLoad /\ [][NextLoad]_vars

-----------------------------------------------------------------------------
(* main.  The driver is followed stage by stage, and tile by tile through    *)
(* the steps of its loop: load, masks, unload, feed.  pc is the step about   *)
(* to run.  An exception nothing catches ends the process by std::terminate. *)

\* return 1 without the line on cerr
FailsSilently(message) ==
    /\ pc' = "exited"
    /\ exitStatus' = "failure"
    /\ UNCHANGED diagnostics

\* return 1 after one line on cerr
Fails(message) ==
    /\ pc' = "exited"
    /\ exitStatus' = "failure"
    /\ diagnostics' = Append(diagnostics, message)

\* an uncaught cv::Exception: std::terminate reports it and aborts
Throws(what) ==
    /\ pc' = "exited"
    /\ exitStatus' = "abort"
    /\ diagnostics' = Append(diagnostics, what)

GoesTo(step) ==
    /\ pc' = step
    /\ UNCHANGED <<exitStatus, diagnostics>>

\* the lines 42-70 of main: the checks of num_bands, feather_radius, overlap_margin
ParseArguments ==
    /\ pc = "args"
    /\ IF numBands < 0 \/ numBands > 50 THEN Fails("Invalid num_bands value.")
       ELSE IF featherRadius < 0 THEN Fails("Invalid feather_radius value.")
       ELSE IF overlapMargin < 0 THEN Fails("Invalid overlap_margin value.")
       ELSE GoesTo("resolve")
    /\ UNCHANGED <<loaderVars, blenderVars, tfwVars, resolverVars, numBands, stages,
                   images, masks, fedAny, output>>

\* [1/5]: loader.loadFromDirectory, then the count of the tiles
Resolve ==
    /\ pc = "resolve"
    /\ Loads
    /\ stages' = Append(stages, <<"resolve", 0>>)
    /\ IF loadResult' = "error" THEN Fails("Loading failed")
       ELSE IF Len(tiles_') < 2 THEN Fails("Not enough tiles")
       ELSE GoesTo(IF useVoronoiMasks THEN "generate" ELSE "prepare")
    /\ UNCHANGED <<directory, overlapMargin, featherRadius, useVoronoiMasks, genResult,
                   divByZero, tileIndex, blenderVars, tfwVars, numBands, fedAny, output>>

\* [2/6]: loader.generateVoronoiMasks(overlapMargin)
Generate ==
    /\ pc = "generate"
    /\ Generates
    /\ stages' = Append(stages, <<"generate", 0>>)
    /\ IF genResult' = "error" THEN Fails("Voronoi mask generation failed")
                               ELSE GoesTo("prepare")
    /\ UNCHANGED <<tiles_, pcFiles, rasters, overlapMargin, featherRadius,
                   useVoronoiMasks, tileIndex, weightMasks, blendMasks, blenderVars,
                   tfwVars, resolverVars, numBands, images, masks, fedAny, output>>

\* [3/6]: the canvas check, DualMaskMultiBandBlender blender(numBands), whose
\* setNumBands asserts 1 <= num_bands <= 50, and blender.prepare(roi)
PrepareBlender ==
    /\ pc = "prepare"
    /\ stages' = Append(stages, <<"prepare", 0>>)
    /\ IF ~UsableSize(canvasSize_)
       THEN /\ Fails("Invalid canvas")
            /\ UNCHANGED blenderVars
       ELSE IF ~(numBands >= 1 /\ numBands <= 50)
       THEN /\ Throws("Assertion failed: num_bands >= 1 && num_bands <= 50")
            /\ phase' = "crashed"
            /\ UNCHANGED <<weight_type_, actual_num_bands_, num_bands_, dst_roi_,
                           dst_roi_final_, dst_pyr_laplace_, dst_band_weights_, dst,
                           dst_mask, fed, caller>>
       ELSE \E r \in {Prepared(Rect(0, 0, canvasSize_[1], canvasSize_[2]), numBands,
                               "CV_32F")} :
               /\ GoesTo("load")
               /\ phase' = "prepared"
               /\ weight_type_' = "CV_32F"
               /\ actual_num_bands_' = numBands
               /\ dst_roi_final_' = Rect(0, 0, canvasSize_[1], canvasSize_[2])
               /\ num_bands_' = r.num_bands
               /\ dst_roi_' = r.dst_roi
               /\ dst_pyr_laplace_' = r.laplace
               /\ dst_band_weights_' = r.weights
               /\ UNCHANGED <<dst, dst_mask, fed, caller>>
    /\ UNCHANGED <<loaderVars, tfwVars, resolverVars, numBands, images, masks, fedAny,
                   output>>

\* the loop of [4/6], first step: tileIndex++, loader.loadTile(&tile), the
\* checks of tile.image and of bgr.  decodes: whether QImage reads the raster.
LoadTile ==
    /\ pc = "load"
    /\ tileIndex < Len(tiles_)
    /\ tileIndex' = tileIndex + 1
    /\ \E decodes \in BOOLEAN :
          IF ~decodes
          THEN /\ Fails("FAILED: Failed to load image")
               /\ UNCHANGED images
          ELSE /\ images' = images \cup {tileIndex + 1}
               /\ GoesTo("masks")
    /\ UNCHANGED <<tiles_, pcFiles, rasters, generated, voronoiFiles, overlapMargin,
                   featherRadius, useVoronoiMasks, genResult, errorMessage, divByZero,
                   weightMasks, blendMasks, blenderVars, tfwVars, resolverVars, numBands,
                   stages, masks, fedAny, output>>

\* second step: loader.loadPCMask(&tile), the weight mask W from tile.mask,
\* the blend mask B from the Voronoi mask or a clone of W
BuildTileMasks ==
    /\ pc = "masks"
    /\ LET i == tileIndex
           w == BuildCoverageMask(rasters[i], LoadPCMask(i), featherRadius, FALSE)
           b == IF useVoronoiMasks /\ i \in generated /\ ~IsNull(voronoiFiles[i])
                THEN BuildCoverageMask(rasters[i], voronoiFiles[i], featherRadius, TRUE)
                ELSE w
       IN /\ masks' = IF IsNull(LoadPCMask(i)) THEN masks ELSE masks \cup {i}
          /\ weightMasks' = [weightMasks EXCEPT ![i] = w]
          /\ blendMasks' = [blendMasks EXCEPT ![i] = b]
    /\ GoesTo("unload")
    /\ UNCHANGED <<tiles_, pcFiles, rasters, generated, voronoiFiles, overlapMargin,
                   featherRadius, useVoronoiMasks, genResult, errorMessage, divByZero,
                   tileIndex, blenderVars, tfwVars, resolverVars, numBands, stages,
                   images, fedAny, output>>

\* cv::countNonZero
CountNonZero(mask) ==
    Cardinality({p \in Pixels(mask.width, mask.height) : mask.px[p] # 0})

\* unloadTile forgetting to clear tile->image
UnloadedTileKept(loaded, i) == loaded

\* OrthoLoader::unloadTile(&tile): tile->image = QImage()
UnloadedTile(loaded, i) == loaded \ {i}

\* OrthoLoader::unloadMask(&tile): tile->mask = QImage()
UnloadedMask(loaded, i) == loaded \ {i}

\* third step: loader.unloadMask(&tile), loader.unloadTile(&tile), then the
\* checks that W and B are not empty and not all zero
UnloadTile ==
    /\ pc = "unload"
    /\ masks' = UnloadedMask(masks, tileIndex)
    /\ images' = UnloadedTile(images, tileIndex)
    /\ IF IsNull(weightMasks[tileIndex]) \/ CountNonZero(weightMasks[tileIndex]) = 0
       THEN Fails("FAILED: empty or zero weight mask")
       ELSE IF IsNull(blendMasks[tileIndex]) \/ CountNonZero(blendMasks[tileIndex]) = 0
       THEN Fails("FAILED: empty or zero blend mask")
       ELSE GoesTo("feed")
    /\ UNCHANGED <<loaderVars, blenderVars, tfwVars, resolverVars, numBands, stages,
                   fedAny, output>>

\* qImageToBgrMat: the raster as a CV_8UC3 matrix in blue, green, red order
QImageToBgrMat(image) ==
    Mat(image.width, image.height,
        [p \in Pixels(image.width, image.height) |->
            <<image.px[p][3], image.px[p][2], image.px[p][1]>>])

RECURSIVE SumOf(_, _, _)
SumOf(px, S, channel) ==
    IF S = {} THEN 0
    ELSE LET p == CHOOSE q \in S : TRUE
         IN px[p][channel] + SumOf(px, S \ {p}, channel)

\* cvRound(p / q) for p >= 0 and q > 0: the nearest integer, halves to even
RoundHalfEven(p, q) ==
    LET floor == p \div q
        twice == 2 * (p % q)
    IN IF twice < q THEN floor
       ELSE IF twice > q THEN floor + 1
       ELSE IF floor % 2 = 0 THEN floor ELSE floor + 1

\* cv::mean(bgr, blendMask), then bgr.setTo(avgColor, blendMask == 0)
Inpainted(bgr, blendMask) ==
    LET under == {p \in Pixels(bgr.width, bgr.height) : blendMask.px[p] # 0}
        avgColor == [c \in 1 .. 3 |->
                        RoundHalfEven(SumOf(bgr.px, under, c), Cardinality(under))]
    IN Mat(bgr.width, bgr.height,
           [p \in Pixels(bgr.width, bgr.height) |->
               IF blendMask.px[p] = 0 THEN avgColor ELSE bgr.px[p]])

\* a mask of the driver as the CV_8U matrix feed is given
MaskMat(mask) ==
    Mat(mask.width, mask.height,
        [p \in Pixels(mask.width, mask.height) |-> <<mask.px[p]>>])

SameSize(a, b) == a.width = b.width /\ a.height = b.height

\* fourth step: the mean colour under B painted where B is 0 (cv::mean and
\* Mat::setTo throw when the mask's size is not the matrix's), the conversion
\* to CV_16SC3 and blender.feed(img16s, W, B, (tile.x, tile.y)).  feed reads
\* W by the rows of the image: past the end of a W of another size, when it
\* crashes or goes on with what it read.
FeedTile ==
    /\ pc = "feed"
    /\ LET i == tileIndex
           bgr == QImageToBgrMat(rasters[i])
           W == weightMasks[i]
           B == blendMasks[i]
       IN IF ~SameSize(B, bgr)
          THEN /\ Throws("Assertion failed: size == mask.size")
               /\ UNCHANGED <<stages, fedAny, blenderVars>>
          ELSE \E c \in {[img |-> Inpainted(bgr, B), weight_mask |-> MaskMat(W),
                          blend_mask |-> MaskMat(B),
                          tl |-> <<tiles_[i].x, tiles_[i].y>>]} :
               \E b \in {FeedBorders(c, dst_roi_, num_bands_)} :
                  /\ stages' = Append(stages, <<"feed", i>>)
                  /\ IF b.top < 0 \/ b.bottom < 0 \/ b.left < 0 \/ b.right < 0
                     THEN /\ Throws("Assertion failed: top >= 0 && bottom >= 0 && left >= 0 && right >= 0")
                          /\ phase' = "crashed"
                          /\ UNCHANGED <<fedAny, weight_type_, actual_num_bands_,
                                         num_bands_, dst_roi_, dst_roi_final_,
                                         dst_pyr_laplace_, dst_band_weights_, dst,
                                         dst_mask, fed, caller>>
                     ELSE \E read \in (IF SameSize(W, bgr) THEN {"W"}
                                       ELSE {"crash", "zeros", "full"}) :
                          IF read = "crash"
                          THEN /\ Throws("Segmentation fault")
                               /\ phase' = "crashed"
                               /\ UNCHANGED <<fedAny, weight_type_, actual_num_bands_,
                                              num_bands_, dst_roi_, dst_roi_final_,
                                              dst_pyr_laplace_, dst_band_weights_, dst,
                                              dst_mask, fed, caller>>
                          ELSE \E acc \in {FeedInto(
                                    [laplace |-> dst_pyr_laplace_,
                                     weights |-> dst_band_weights_],
                                    IF read = "W" THEN c
                                    ELSE [c EXCEPT !.weight_mask =
                                             Mat(bgr.width, bgr.height,
                                                 [p \in Pixels(bgr.width, bgr.height) |->
                                                     IF read = "zeros" THEN <<0>>
                                                                       ELSE <<255>>])],
                                    dst_roi_, num_bands_, weight_type_)} :
                               /\ dst_pyr_laplace_' = acc.laplace
                               /\ dst_band_weights_' = acc.weights
                               /\ fed' = Append(fed, c)
                               /\ fedAny' = TRUE
                               /\ GoesTo(IF i = Len(tiles_) THEN "blend" ELSE "load")
                               /\ UNCHANGED <<phase, weight_type_, actual_num_bands_,
                                              num_bands_, dst_roi_, dst_roi_final_, dst,
                                              dst_mask, caller>>
    /\ UNCHANGED <<loaderVars, tfwVars, resolverVars, numBands, images, masks, output>>

\* the check of fedAny, then [5/6]: blender.blend(blended, blendedMask)
BlendAll ==
    /\ pc = "blend"
    /\ IF ~fedAny
       THEN /\ Fails("Blending failed: No valid pixels were submitted to the blender.")
            /\ UNCHANGED <<stages, blenderVars>>
       ELSE /\ stages' = Append(stages, <<"blend", 0>>)
            /\ \E cast \in (IF weight_type_ = "CV_32F" THEN {"wrap", "saturate"}
                                                      ELSE {"wrap"}),
                  division \in (IF NormalizeDividesByZero(dst_band_weights_, weight_type_)
                                THEN {"trap", "zero"} ELSE {"none"}) :
                  IF division = "trap"
                  THEN /\ Throws("Floating point exception")
                       /\ phase' = "crashed"
                       /\ UNCHANGED <<dst_pyr_laplace_, dst_band_weights_, dst, dst_mask>>
                  ELSE \E out \in {Blended([laplace |-> dst_pyr_laplace_,
                                            weights |-> dst_band_weights_],
                                           dst_roi_final_, weight_type_, cast)} :
                          /\ dst' = out.dst
                          /\ dst_mask' = out.dst_mask
                          /\ dst_pyr_laplace_' = <<>>
                          /\ dst_band_weights_' = <<>>
                          /\ phase' = "blended"
                          /\ IF out.dst.width = 0 \/ out.dst.height = 0
                             THEN Fails("Blending failed: OpenCV returned an empty result.")
                             ELSE GoesTo("emit")
            /\ UNCHANGED <<weight_type_, actual_num_bands_, num_bands_, dst_roi_,
                           dst_roi_final_, fed, caller>>
    /\ UNCHANGED <<loaderVars, tfwVars, resolverVars, numBands, images, masks, fedAny,
                   output>>

\* cv::saturate_cast<uchar> of a short
SaturateUchar(v) == IF v < 0 THEN 0 ELSE IF v > 255 THEN 255 ELSE v

\* bgrMatToQImage(blended8u): the composite in red, green, blue order
BgrMatToQImage(mat) ==
    Image(mat.width, mat.height,
          [p \in Pixels(mat.width, mat.height) |->
              <<SaturateUchar(mat.px[p][3]), SaturateUchar(mat.px[p][2]),
                SaturateUchar(mat.px[p][1])>>])

\* [6/6]: blended.convertTo(blended8u, CV_8UC3), bgrMatToQImage and
\* blendedImage.save(outputPath).  saved: whether the file could be written.
Emit ==
    /\ pc = "emit"
    /\ stages' = Append(stages, <<"emit", 0>>)
    /\ \E saved \in BOOLEAN :
          IF IsNull(BgrMatToQImage(dst))
          THEN /\ Fails("Blending failed: Could not convert the blended image for display.")
               /\ UNCHANGED output
          ELSE IF ~saved
          THEN /\ Fails("Failed to save output image")
               /\ UNCHANGED output
          ELSE /\ output' = BgrMatToQImage(dst)
               /\ pc' = "exited"
               /\ exitStatus' = "success"
               /\ UNCHANGED diagnostics
    /\ UNCHANGED <<loaderVars, blenderVars, tfwVars, resolverVars, numBands, images,
                   masks, fedAny>>

\* a raster of 2x1 of one gray, with the world file that puts it at x
SmallTile(x, gray, mask) ==
    [tfw |-> WorldFile("1", "0", "0", "-1", x, "0"),
     raster |-> [state |-> "ok",
                 image |-> Image(2, 1, [p \in Pixels(2, 1) |-> <<gray, gray, gray>>])],
     mask |-> mask]

\* PC_ masks: of the raster's size with its right pixel invalid, of the
\* raster's size and all invalid, and of another size than the raster
MaskRightInvalid ==
    [state |-> "ok", width |-> 2, height |-> 1, px |-> [p \in Pixels(2, 1) |->
                                                          IF p[1] = 1 THEN 255 ELSE 0]]

MaskAllInvalid ==
    [state |-> "ok", width |-> 2, height |-> 1, px |-> [p \in Pixels(2, 1) |-> 255]]

MaskOtherSize ==
    [state |-> "ok", width |-> 3, height |-> 1, px |-> [p \in Pixels(3, 1) |-> 0]]

\* a PC_ mask that is in the directory and that no reader decodes
MaskUnreadable == [state |-> "unreadable"]

TilePairs ==
    {<<SmallTile("0", 100, NoFile), SmallTile("2", 200, NoFile)>>,
     <<SmallTile("0", 100, MaskUnreadable), SmallTile("2", 200, NoFile)>>,
     <<SmallTile("0", 100, NoFile), SmallTile("1", 200, NoFile)>>,
     <<SmallTile("0", 100, MaskRightInvalid), SmallTile("1", 200, NoFile)>>,
     <<SmallTile("0", 100, MaskOtherSize), SmallTile("2", 200, NoFile)>>,
     <<SmallTile("0", 100, NoFile), SmallTile("2", 200, MaskOtherSize)>>,
     <<SmallTile("0", 100, MaskAllInvalid), SmallTile("2", 200, NoFile)>>,
     <<SmallTile("0", 100, NoFile)>>,
     <<SmallTile("0", 100, NoFile),
       [SmallTile("2", 200, NoFile) EXCEPT
           !.tfw = WorldFile("1", "0.000001", "0", "-1", "2", "0")]>>}

\* the directories main is run on: tiles alone, and two tiles under a
\* reference whose origin lies right of the first
MainDirectories ==
    {[path |-> "in", exists |-> TRUE, reference |-> NoFile, metadata |-> NoFile,
      entries |-> e] : e \in TilePairs}
    \cup {[path |-> "in", exists |-> TRUE,
           reference |-> WorldFile("1", "0", "0", "-1", "1", "0"),
           metadata |-> [state |-> "ok", found |-> TRUE, parts |-> <<"4", "1">>],
           entries |-> <<SmallTile("0", 100, NoFile), SmallTile("2", 200, NoFile)>>]}

\* argv: num_bands, feather_radius, overlap_margin, use_voronoi
MainBands == {0, 1, 2}

MainArguments ==
    {[numBands |-> n, featherRadius |-> 1, overlapMargin |-> 1, useVoronoiMasks |-> v] :
        n \in MainBands, v \in BOOLEAN}
    \cup {[numBands |-> n, featherRadius |-> 1, overlapMargin |-> 1,
           useVoronoiMasks |-> TRUE] : n \in {0 - 1, 51}}
    \cup {[numBands |-> 1, featherRadius |-> f, overlapMargin |-> 1,
           useVoronoiMasks |-> TRUE] : f \in {0 - 1, 2}}
    \cup {[numBands |-> 1, featherRadius |-> 1, overlapMargin |-> m,
           useVoronoiMasks |-> TRUE] : m \in {0 - 1, 0}}

\* main entered with its arguments read, nothing loaded
InitMain ==
    /\ NoBlender
    /\ NoTfw
    /\ directory \in MainDirectories
    /\ \E a \in MainArguments :
          /\ numBands = a.numBands
          /\ featherRadius = a.featherRadius
          /\ overlapMargin = a.overlapMargin
          /\ useVoronoiMasks = a.useVoronoiMasks
    /\ tiles_ = <<>>
    /\ pcFiles = <<>>
    /\ rasters = <<>>
    /\ generated = {}
    /\ voronoiFiles = <<>>
    /\ genResult = "none"
    /\ errorMessage = ""
    /\ divByZero = FALSE
    /\ tileIndex = 0
    /\ weightMasks = <<>>
    /\ blendMasks = <<>>
    /\ loadResult = "none"
    /\ canvasSize_ = InvalidSize
    /\ pixelWidth_ = 0
    /\ pixelHeight_ = 0
    /\ hasReference_ = FALSE
    /\ referenceTfw_ = ZeroRecord
    /\ referenceCanvasSize_ = InvalidSize
    /\ pc = "args"
    /\ stages = <<>>
    /\ exitStatus = "none"
    /\ diagnostics = <<>>
    /\ images = {}
    /\ masks = {}
    /\ fedAny = FALSE
    /\ output = NoMat

NextMain ==
    \/ ParseArguments
    \/ Resolve
    \/ Generate
    \/ PrepareBlender
    \/ LoadTile
    \/ BuildTileMasks
    \/ UnloadTile
    \/ FeedTile
    \/ BlendAll
    \/ Emit

SpecMain == InitMain /\ [][NextMain]_vars

-----------------------------------------------------------------------------
(* Properties of the world-file parser.                                      *)

\* the fields of a file, whatever blanks or line ends separate them
RECURSIVE Fields(_)
Fields(lines) == IF lines = <<>> THEN <<>> ELSE Head(lines) \o Fields(Tail(lines))

\* six values as the six fields of a record, in the order of a world file
InOrder(v) ==
    [scaleX |-> v[1], rotationY |-> v[2], rotationX |-> v[3], scaleY |-> v[4],
     translateX |-> v[5], translateY |-> v[6]]

SixNumbers(file) ==
    /\ file.state = "ok"
    /\ Len(Fields(file.lines)) = 6
    /\ \A i \in 1 .. 6 : Fields(file.lines)[i] \in DOMAIN DecimalValue

NonBlank(lines) == SelectSeq(lines, LAMBDA l : l # <<>>)

SixNumberLines(file) ==
    /\ file.state = "ok"
    /\ Len(NonBlank(file.lines)) >= 6
    /\ \A i \in 1 .. 6 : /\ Len(NonBlank(file.lines)[i]) = 1
                         /\ NonBlank(file.lines)[i][1] \in DOMAIN DecimalValue

\* C17 as stated: parseTfw succeeds exactly when the file opens and consists
\* of exactly six decimal numbers separated by any blanks or line ends, which
\* it assigns in order; when it fails it leaves the record as it was.
C17_WorldFileParsing ==
    [][parsed' # "none" =>
          /\ parsed' = "ok" <=> SixNumbers(tfwFile)
          /\ parsed' = "ok" =>
                record' = InOrder([i \in 1 .. 6 |-> DecimalValue[Fields(tfwFile.lines)[i]]])
          /\ parsed' = "error" => record' = record]_vars

\* C17 amended: parseTfw succeeds exactly when the file opens and its first
\* six non-blank lines each hold one decimal number and nothing else; it
\* assigns these in order and reads no further; when it fails it leaves the
\* record as it was.
C17_WorldFileParsingByLine ==
    [][parsed' # "none" =>
          /\ parsed' = "ok" <=> SixNumberLines(tfwFile)
          /\ parsed' = "ok" =>
                record' = InOrder([i \in 1 .. 6 |->
                                     DecimalValue[NonBlank(tfwFile.lines)[i][1]]])
          /\ parsed' = "error" => record' = record]_vars

\* a file of six numbers and a seventh line that is no number was parsed
C17_Witness ==
    /\ parsed = "ok"
    /\ Len(tfwFile.lines) = 7
    /\ tfwFile.lines[7] = <<"abc">>
    /\ record.scaleX # record.rotationY

-----------------------------------------------------------------------------
(* Properties of the resolver.  They read the directory as it was written:   *)
(* every world file of the directories here has six lines of one number.     *)

\* the number on line n of a world file
NumberAt(file, n) == DecimalValue[file.lines[n][1]]

\* the offset of a world file's raster in pixels of its own resolution
WorldX(file) == LRound(NumberAt(file, 5), Abs(NumberAt(file, 1)))

WorldY(file) == LRound(0 - NumberAt(file, 6), Abs(NumberAt(file, 4)))

Rotated(file) ==
    file.state = "ok" /\ (NumberAt(file, 2) # 0 \/ NumberAt(file, 3) # 0)

\* <<|scaleX|, |scaleY|>> of a world file
Resolution(file) == <<Abs(NumberAt(file, 1)), Abs(NumberAt(file, 4))>>

\* the reference world file and the metadata file are both there
Referenced == directory.reference.state # "none" /\ directory.metadata.state # "none"

\* the entries that become tiles: those with a raster
Placed == SelectSeq(directory.entries, LAMBDA e : e.raster.state # "none")

\* C13: in fallback mode, after loadFromDirectory succeeds, the least tile x
\* and the least tile y are 0, the differences of the tiles' offsets are those
\* of their world offsets, and the canvas is (max(x+width), max(y+height)).
C13_FallbackCanvas ==
    (loadResult = "ok" /\ ~Referenced) =>
        LET all == 1 .. Len(tiles_)
        IN /\ Len(tiles_) = Len(Placed)
           /\ \A i \in all : tiles_[i].x >= 0 /\ tiles_[i].y >= 0
           /\ \E i \in all : tiles_[i].x = 0
           /\ \E i \in all : tiles_[i].y = 0
           /\ \A i, j \in all :
                 /\ tiles_[i].x - tiles_[j].x
                       = WorldX(Placed[i].tfw) - WorldX(Placed[j].tfw)
                 /\ tiles_[i].y - tiles_[j].y
                       = WorldY(Placed[i].tfw) - WorldY(Placed[j].tfw)
           /\ \A i \in all : /\ tiles_[i].x + tiles_[i].width <= canvasSize_[1]
                             /\ tiles_[i].y + tiles_[i].height <= canvasSize_[2]
           /\ \E i \in all : tiles_[i].x + tiles_[i].width = canvasSize_[1]
           /\ \E i \in all : tiles_[i].y + tiles_[i].height = canvasSize_[2]

\* scenario S4: tiles of 4x4 at (5,5) and (9,5) end at x = 0 and 4 on a canvas of 8x4
C13_Witness ==
    /\ loadResult = "ok"
    /\ ~Referenced
    /\ Len(Placed) = 2
    /\ WorldX(Placed[1].tfw) = 5 /\ WorldY(Placed[1].tfw) = 5
    /\ WorldX(Placed[2].tfw) = 9 /\ WorldY(Placed[2].tfw) = 5
    /\ tiles_ = <<[x |-> 0, y |-> 0, width |-> 4, height |-> 4],
                  [x |-> 4, y |-> 0, width |-> 4, height |-> 4]>>
    /\ canvasSize_ = <<8, 4>>

\* C14: whenever loadFromDirectory succeeds, in referenced mode as in fallback
\* mode, every tile has a positive width and height and its top-left corner
\* on the canvas.
C14_TilePlacement ==
    loadResult = "ok" =>
        \A i \in 1 .. Len(tiles_) :
            /\ tiles_[i].width > 0
            /\ tiles_[i].height > 0
            /\ 0 <= tiles_[i].x /\ tiles_[i].x < canvasSize_[1]
            /\ 0 <= tiles_[i].y /\ tiles_[i].y < canvasSize_[2]

\* C15 as stated: loadFromDirectory fails, the canvas size left invalid,
\* whenever a tile's world file or the reference world file has a rotation
\* other than exactly zero.
C15_RotationRejected ==
    (/\ loadResult # "none"
     /\ directory.exists
     /\ \/ Rotated(directory.reference)
        \/ \E i \in 1 .. Len(directory.entries) : Rotated(directory.entries[i].tfw))
    => (loadResult = "error" /\ canvasSize_ = InvalidSize)

\* C15 amended: loadFromDirectory fails, the canvas size left invalid,
\* whenever a tile's world file has a rotation other than exactly zero, or
\* the reference world file has one and MTDOrtho.xml is there beside it.
C15_RotationRejectedWhenRead ==
    (/\ loadResult # "none"
     /\ directory.exists
     /\ \/ Referenced /\ Rotated(directory.reference)
        \/ \E i \in 1 .. Len(directory.entries) : Rotated(directory.entries[i].tfw))
    => (loadResult = "error" /\ canvasSize_ = InvalidSize)

\* a second world file rotated by a millionth was rejected after a first was placed
C15_Witness ==
    /\ loadResult = "error"
    /\ errorMessage = "Expected zero rotation"
    /\ Len(directory.entries) = 2
    /\ NumberAt(directory.entries[2].tfw, 2) = 1
    /\ Len(tiles_) = 1

\* a directory in which nothing but the resolutions can be wrong
Sound ==
    /\ directory.exists
    /\ directory.entries # <<>>
    /\ Referenced => /\ ~Rotated(directory.reference)
                     /\ ParseMTDOrtho(directory.metadata).ok
    /\ \A i \in 1 .. Len(directory.entries) :
          LET e == directory.entries[i]
          IN /\ ~Rotated(e.tfw)
             /\ Resolution(e.tfw)[1] > 0 /\ Resolution(e.tfw)[2] > 0
             /\ e.raster.state = "ok" /\ ~IsNull(e.raster.image)

Mismatch == loadResult = "error" /\ errorMessage = "uses a different resolution"

\* C16 as stated: loadFromDirectory fails with a resolution mismatch exactly
\* when some tile's |scaleX| or |scaleY| differs from the first observed
\* tile's; tiles that all agree with it are accepted, in either mode.
C16_ResolutionConsistency ==
    (loadResult # "none" /\ Sound) =>
        LET differs == \E i \in 1 .. Len(directory.entries) :
                          Resolution(directory.entries[i].tfw)
                             # Resolution(directory.entries[1].tfw)
        IN /\ Mismatch <=> differs
           /\ ~differs => loadResult = "ok"

\* the resolution the tiles are held to: the reference world file's in
\* referenced mode, unless both its scales are 0, else the first world file's
FirstObserved ==
    IF Referenced /\ Resolution(directory.reference) # <<0, 0>>
    THEN Resolution(directory.reference)
    ELSE Resolution(directory.entries[1].tfw)

\* C16 amended: loadFromDirectory fails with a resolution mismatch exactly
\* when some tile's |scaleX| or |scaleY| differs from the first observed
\* resolution, which in referenced mode is the reference world file's; tiles
\* that all agree with it are accepted.
C16_ResolutionConsistencyWithReference ==
    (loadResult # "none" /\ Sound) =>
        LET differs == \E i \in 1 .. Len(directory.entries) :
                          Resolution(directory.entries[i].tfw) # FirstObserved
        IN /\ Mismatch <=> differs
           /\ ~differs => loadResult = "ok"

\* two tiles that agree with each other were rejected against the reference
C16_Witness ==
    /\ Mismatch
    /\ Sound
    /\ Referenced
    /\ Len(directory.entries) = 2
    /\ Resolution(directory.entries[1].tfw) = Resolution(directory.entries[2].tfw)

-----------------------------------------------------------------------------
(* Properties of the driver.                                                 *)

Exited == pc = "exited"

\* C12: a run with num_bands = 0 passes the parameter checks, constructs and
\* prepares the blender and completes with a composite instead of aborting.
C12_ZeroBandsAccepted ==
    numBands = 0 =>
        /\ exitStatus # "abort"
        /\ pc \in {"load", "masks", "unload", "feed", "blend", "emit"}
              => phase = "prepared"

Range(seq) == {seq[k] : k \in 1 .. Len(seq)}

IsPrefix(s, t) == Len(s) <= Len(t) /\ \A k \in 1 .. Len(s) : s[k] = t[k]

\* the stages of a complete run, in order
AllStages ==
    <<<<"resolve", 0>>>>
    \o (IF useVoronoiMasks THEN <<<<"generate", 0>>>> ELSE <<>>)
    \o <<<<"prepare", 0>>>>
    \o [i \in 1 .. Len(tiles_) |-> <<"feed", i>>]
    \o <<<<"blend", 0>>, <<"emit", 0>>>>

StagesInOrder ==
    /\ IsPrefix(stages, AllStages)
    /\ <<"blend", 0>> \in Range(stages) =>
          \A i \in 1 .. Len(tiles_) : <<"feed", i>> \in Range(stages)
    /\ output # NoMat => <<"blend", 0>> \in Range(stages) /\ phase = "blended"
    /\ exitStatus \in {"failure", "abort"} => Len(diagnostics) = 1 /\ output = NoMat
    /\ exitStatus = "success" => diagnostics = <<>> /\ stages = AllStages
    /\ exitStatus = "none" => diagnostics = <<>>
    /\ "Blending failed: No valid pixels were submitted to the blender."
          \notin Range(diagnostics)

\* C18: in every run the stages come in the order resolve, generate (with
\* Voronoi masks), prepare, the feed of each tile in the resolver's order,
\* blend, emit; blend comes after every tile is fed and the output after
\* blend; a failure ends the run with a nonzero status and one diagnostic,
\* no stage runs after it, and it is never the 'no tile was fed' failure.
C18_AbortOnFirstError ==
    /\ []StagesInOrder
    /\ [][exitStatus # "none" => (stages' = stages /\ exitStatus' = exitStatus)]_vars

\* a run with Voronoi masks went through every stage and fed two tiles
C18_Witness ==
    /\ exitStatus = "success"
    /\ useVoronoiMasks
    /\ Len(tiles_) = 2
    /\ stages = AllStages

\* C19: in the feed phase at most one tile holds a raster and at most one a
\* validity mask, both are released before the next tile is loaded, and no
\* tile holds a raster once loadFromDirectory has returned.
C19_ResourceDiscipline ==
    /\ Cardinality(images) <= 1
    /\ Cardinality(masks) <= 1
    /\ images \subseteq {tileIndex}
    /\ masks \subseteq {tileIndex}
    /\ pc \notin {"masks", "unload"} => images = {} /\ masks = {}

\* the second tile held its raster and its validity mask, the first none
C19_Witness ==
    /\ pc = "unload"
    /\ tileIndex = 2
    /\ images = {2}
    /\ masks = {2}

\* the validity mask of tile i is not of the size of its raster
Mismatched(i) ==
    /\ pcFiles[i].state = "ok"
    /\ \/ pcFiles[i].width # rasters[i].width
       \/ pcFiles[i].height # rasters[i].height

\* C20: a tile whose validity mask is not of its raster's size is never
\* fed: the run fails before, with or without Voronoi masks; feed is never
\* given a W or a B of another size than the image.
C20_MaskShapeDetected ==
    /\ \A k \in 1 .. Len(stages) :
          stages[k][1] = "feed" =>
             LET i == stages[k][2]
             IN /\ ~Mismatched(i)
                /\ SameSize(weightMasks[i], rasters[i])
                /\ SameSize(blendMasks[i], rasters[i])
    /\ \A k \in 1 .. Len(fed) :
          /\ SameSize(fed[k].weight_mask, fed[k].img)
          /\ SameSize(fed[k].blend_mask, fed[k].img)
    /\ (Exited /\ loadResult = "ok" /\ \E i \in 1 .. Len(tiles_) : Mismatched(i))
          => exitStatus \in {"failure", "abort"}
    /\ "Assertion failed: size == mask.size" \in Range(diagnostics)
          => Mismatched(tileIndex)

\* without Voronoi masks the second tile's mask of another size stopped the
\* run after the first tile was fed
C20_Witness ==
    /\ Exited
    /\ ~useVoronoiMasks
    /\ tileIndex = 2
    /\ Mismatched(2)
    /\ diagnostics = <<"Assertion failed: size == mask.size">>
    /\ stages[Len(stages)] = <<"feed", 1>>

-----------------------------------------------------------------------------
(* Properties of the accumulators.                                           *)

\* the sum of the int16 weights the first n feeds add at the one canvas pixel
RECURSIVE WeightsFed(_)
WeightsFed(n) ==
    IF n = 0 THEN 0
    ELSE WeightsFed(n - 1)
         + WeightMap(fed[n].weight_mask, "CV_16S").px[<<0, 0>>][1]

\* C30: in the int16 weight variant a weight accumulator whose sum passes
\* the int16 range holds the int16 bound 32767 (it saturates), so that an
\* accumulated weight is never negative and never -1.
C30_Int16Saturates ==
    (weight_type_ = "CV_16S" /\ phase = "prepared") =>
        \A i \in DOMAIN dst_band_weights_ :
            \A p \in Pixels(dst_band_weights_[i].width, dst_band_weights_[i].height) :
                /\ dst_band_weights_[i].px[p][1] >= 0
                /\ dst_band_weights_[i].px[p][1] = SaturateShort(WeightsFed(Len(fed)))

-----------------------------------------------------------------------------
(* prepare on rectangles of any size.  The levels are kept as their sizes:   *)
(* a Mat of this specification has no pixels.                                *)

SizingWidths == {1, 2, 3, 4, 5, 7, 8, 9, 16, 17, 2 ^ 29}
SizingHeights == {1, 2, 3, 8}
SizingBands == {1, 2, 3, 5, 29, 30, 50}

SizingCallers ==
    {[roi |-> Rect(0, 0, w, h), pool |-> {}, feeds |-> 0] :
        w \in SizingWidths, h \in SizingHeights}

InitSizing == ConstructedWith(SizingCallers, SizingBands)

\* prepare(dst_roi): the sizes it gives the blender
PrepareSizes ==
    /\ phase = "constructed"
    /\ LET s == PreparedSizes(caller.roi, actual_num_bands_)
       IN /\ dst_roi_final_' = caller.roi
          /\ num_bands_' = s.num_bands
          /\ dst_roi_' = s.dst_roi
          /\ dst_pyr_laplace_' =
                [i \in 1 .. (s.num_bands + 1) |-> Mat(s.sizes[i][1], s.sizes[i][2], <<>>)]
          /\ dst_band_weights_' =
                [i \in 1 .. (s.num_bands + 1) |-> Mat(s.sizes[i][1], s.sizes[i][2], <<>>)]
    /\ phase' = "prepared"
    /\ UNCHANGED <<weight_type_, actual_num_bands_, dst, dst_mask, fed, caller, loaderVars,
                   tfwVars, resolverVars, mainVars>>

NextSizing == PrepareSizes

SpecSizing == InitSizing /\ [][NextSizing]_vars

\* ceil(v / 2)
HalfUp(v) == (v + 1) \div 2

\* the smallest multiple of m that is at least len
NextMultiple(len, m) == ((len + m - 1) \div m) * m

\* C26: after prepare on a rectangle of width and height >= 1 the effective
\* band count is min(num_bands, ceil(log2(max(width, height)))), each padded
\* dimension is the smallest multiple of 2^n not below the requested one,
\* both pyramids have n + 1 levels, level 0 of the padded size and each next
\* level of half the size rounded up, and the requested rectangle is kept.
C26_PrepareSizing ==
    phase = "prepared" =>
        LET n == Min2(actual_num_bands_,
                      CeilLog2(Max2(caller.roi.width, caller.roi.height)))
        IN /\ num_bands_ = n
           /\ dst_roi_.x = caller.roi.x /\ dst_roi_.y = caller.roi.y
           /\ dst_roi_.width = NextMultiple(caller.roi.width, 2 ^ n)
           /\ dst_roi_.height = NextMultiple(caller.roi.height, 2 ^ n)
           /\ dst_roi_.width - caller.roi.width < 2 ^ n
           /\ dst_roi_.height - caller.roi.height < 2 ^ n
           /\ Len(dst_pyr_laplace_) = n + 1
           /\ Len(dst_band_weights_) = n + 1
           /\ \A pyr \in {dst_pyr_laplace_, dst_band_weights_} :
                 /\ pyr[1].width = dst_roi_.width
                 /\ pyr[1].height = dst_roi_.height
                 /\ \A i \in 2 .. Len(pyr) :
                       /\ pyr[i].width = HalfUp(pyr[i - 1].width)
                       /\ pyr[i].height = HalfUp(pyr[i - 1].height)
           /\ dst_roi_final_ = caller.roi

\* the claim of C26 on every rectangle but those 2^29 long
C26_PrepareSizingBelow ==
    Max2(caller.roi.width, caller.roi.height) # 2 ^ 29 => C26_PrepareSizing

-----------------------------------------------------------------------------
(* Feeds on a long canvas, on which the support region of a tile is not the  *)
(* whole canvas, and feeds of tiles that leave the canvas.                   *)

WideLength == 11

\* where the tiles lie along the canvas: inside the requested rectangle,
\* inside its padding only, across the end of the padded rectangle, outside
WideSpans ==
    {<<0, 1>>, <<0, 2>>, <<8, 1>>, <<9, 2>>, <<10, 2>>, <<11, 2>>, <<0 - 1, 1>>,
     <<40, 1>>}

TallSpans == {<<0, 1>>, <<8, 1>>, <<11, 2>>, <<0 - 1, 1>>}

\* a caller of a canvas one pixel high, and of one that is one pixel wide
WideCallers ==
    {[roi |-> Rect(0, 0, WideLength, 1),
      pool |-> {Contribution(t[1], 0, t[2], 1, 100, 16, 255, 255) : t \in WideSpans},
      feeds |-> MaxFeeds],
     [roi |-> Rect(0, 0, 1, WideLength),
      pool |-> {Contribution(0, t[1], 1, t[2], 100, 16, 255, 255) : t \in TallSpans},
      feeds |-> MaxFeeds]}

InitWide == Constructed(WideCallers)

SpecWide == InitWide /\ [][NextBlend]_vars

-----------------------------------------------------------------------------
(* Properties of the support region of feed.                                 *)

\* the rectangle of contribution c lies inside the rectangle roi
Inside(c, roi) ==
    /\ c.tl[1] >= roi.x
    /\ c.tl[2] >= roi.y
    /\ c.tl[1] + c.img.width <= roi.x + roi.width
    /\ c.tl[2] + c.img.height <= roi.y + roi.height

\* the support region feed computes for c in the prepared blender
RegionOf(c) == FeedRegion(c.tl, c.img.width, c.img.height, dst_roi_, num_bands_)

\* the region r is a rectangle that contains the rectangle of c
Contains(r, c) ==
    /\ r.tl_new[1] <= c.tl[1]
    /\ r.tl_new[2] <= c.tl[2]
    /\ c.tl[1] + c.img.width <= r.br_new[1]
    /\ c.tl[2] + c.img.height <= r.br_new[2]

\* C27: for every image inside the requested rectangle the support region
\* lies inside the padded rectangle, its corner is a multiple of 2^n away
\* from the padded rectangle's origin, its width and height are positive
\* multiples of 2^n, and it contains the image, so the four border sizes
\* are not negative.
C27_FeedSupportRegion ==
    phase = "prepared" =>
        \A c \in caller.pool :
            Inside(c, dst_roi_final_) =>
                LET r == RegionOf(c)
                    m == 2 ^ num_bands_
                    b == FeedBorders(c, dst_roi_, num_bands_)
                    width == r.br_new[1] - r.tl_new[1]
                    height == r.br_new[2] - r.tl_new[2]
                IN /\ r.tl_new[1] >= dst_roi_.x
                   /\ r.tl_new[2] >= dst_roi_.y
                   /\ r.br_new[1] <= dst_roi_.x + dst_roi_.width
                   /\ r.br_new[2] <= dst_roi_.y + dst_roi_.height
                   /\ (r.tl_new[1] - dst_roi_.x) % m = 0
                   /\ (r.tl_new[2] - dst_roi_.y) % m = 0
                   /\ width > 0 /\ width % m = 0
                   /\ height > 0 /\ height % m = 0
                   /\ Contains(r, c)
                   /\ b.top >= 0 /\ b.bottom >= 0 /\ b.left >= 0 /\ b.right >= 0

\* a fed tile's region starts inside the canvas, left of the tile, on the grid
C27_Witness ==
    /\ phase = "prepared"
    /\ num_bands_ = 1
    /\ \E k \in DOMAIN fed :
          /\ Inside(fed[k], dst_roi_final_)
          /\ RegionOf(fed[k]).tl_new[1] > dst_roi_.x
          /\ RegionOf(fed[k]).tl_new[1] < fed[k].tl[1]

\* the pyramids feed builds for c have the sizes of the rectangles of the levels
PyramidsFit(c) ==
    LET b == FeedBorders(c, dst_roi_, num_bands_)
    IN \A src \in {CreateLaplacePyr(
                      CopyMakeBorderReflect(c.img, b.top, b.bottom, b.left, b.right),
                      num_bands_)} :
       \A weight \in {GaussPyr(CopyMakeBorderConstant(
                                  WeightMap(c.weight_mask, weight_type_),
                                  b.top, b.bottom, b.left, b.right,
                                  ZeroWeight(weight_type_)),
                               num_bands_, weight_type_)} :
       \A blend \in {GaussPyr(CopyMakeBorderConstant(
                                 WeightMap(c.blend_mask, weight_type_),
                                 b.top, b.bottom, b.left, b.right,
                                 ZeroWeight(weight_type_)),
                              num_bands_, weight_type_)} :
           \A i \in 1 .. (num_bands_ + 1) :
               LET rc == LevelRect(RegionOf(c), dst_roi_, i)
               IN \A pyr \in {src, weight, blend} :
                      /\ Len(pyr) = num_bands_ + 1
                      /\ pyr[i].width = rc.width
                      /\ pyr[i].height = rc.height

\* C28: in every feed, at every level i of 0 .. n, the accumulation
\* rectangle has its corner at exactly (x_tl / 2^i, y_tl / 2^i), nothing
\* being lost by the halving, the size of level i of the source Laplacian
\* pyramid and of the two mask pyramids, and lies inside level i of the
\* canvas pyramids.
C28_LevelCoordinates ==
    phase = "prepared" =>
        /\ \A c \in caller.pool :
              Contains(RegionOf(c), c) =>
                  \A i \in 1 .. (num_bands_ + 1) :
                      LET r == RegionOf(c)
                          rc == LevelRect(r, dst_roi_, i)
                          scale == 2 ^ (i - 1)
                      IN /\ rc.x * scale = r.tl_new[1] - dst_roi_.x
                         /\ rc.y * scale = r.tl_new[2] - dst_roi_.y
                         /\ rc.width * scale = r.br_new[1] - r.tl_new[1]
                         /\ rc.height * scale = r.br_new[2] - r.tl_new[2]
                         /\ rc.x >= 0 /\ rc.y >= 0
                         /\ rc.width > 0 /\ rc.height > 0
                         /\ rc.x + rc.width <= dst_pyr_laplace_[i].width
                         /\ rc.y + rc.height <= dst_pyr_laplace_[i].height
                         /\ rc.x + rc.width <= dst_band_weights_[i].width
                         /\ rc.y + rc.height <= dst_band_weights_[i].height
        /\ \A k \in DOMAIN fed : PyramidsFit(fed[k])

\* a tile was fed over two levels into a region off the canvas origin
C28_Witness ==
    /\ phase = "prepared"
    /\ num_bands_ = 1
    /\ \E k \in DOMAIN fed :
          /\ LevelRect(RegionOf(fed[k]), dst_roi_, 2).x > 0
          /\ LevelRect(RegionOf(fed[k]), dst_roi_, 2).width
                < dst_pyr_laplace_[2].width

\* C23: a feed accumulates only an image that its support region contains;
\* the feed of an image whose region is empty or does not contain it (the
\* image leaves the padded rectangle) fails and leaves the accumulators as
\* they were.
C23_EmptyRegionFails ==
    /\ [][(Len(fed') = Len(fed) + 1)
             => Contains(RegionOf(fed'[Len(fed')]), fed'[Len(fed')])]_vars
    /\ [][(phase = "prepared" /\ phase' = "crashed")
             => UNCHANGED <<dst_pyr_laplace_, dst_band_weights_, fed>>]_vars
    /\ [](phase = "prepared" => \A k \in DOMAIN fed : Contains(RegionOf(fed[k]), fed[k]))

\* after one tile was fed the feed of a tile that leaves the canvas failed
C23_Witness ==
    /\ phase = "crashed"
    /\ dst_pyr_laplace_ # <<>>
    /\ Len(fed) = 1

-----------------------------------------------------------------------------
(* A blender that is used again: prepare after blend, and prepare after      *)
(* feeds that were never blended.  The caller counts the cycles it ended by  *)
(* blend and those it gave up.                                               *)

MaxCycles == 2

ReuseSizes == {<<2, 1>>, <<4, 2>>}

\* the caller of a canvas of w x h after so many blended and discarded cycles
ReuseCaller(w, h, blends, discards) ==
    [roi |-> Rect(0, 0, w, h),
     pool |-> {Contribution(t.x, t.y, t.width, t.height, 100, 16, 255, 255) :
                  t \in {Rect(0, 0, w, h), Rect(0, 0, w \div 2, h)}},
     feeds |-> MaxFeeds,
     blended |-> blends,
     discarded |-> discards]

InitReuse == ConstructedWith({ReuseCaller(2, 1, 0, 0)}, {2})

\* the caller once it has called prepare again, for a canvas of size s
NextCaller(s) ==
    ReuseCaller(s[1], s[2],
                caller.blended + (IF phase = "blended" THEN 1 ELSE 0),
                caller.discarded + (IF phase = "prepared" /\ fed # <<>> THEN 1 ELSE 0))

\* what prepare(dst_roi) leaves, dst_roi being the rectangle of the caller next
PreparesFor(next) ==
    /\ caller' = next
    /\ LET r == Prepared(next.roi, actual_num_bands_, weight_type_)
       IN /\ dst_roi_final_' = next.roi
          /\ num_bands_' = r.num_bands
          /\ dst_roi_' = r.dst_roi
          /\ dst_pyr_laplace_' = r.laplace
          /\ dst_band_weights_' = r.weights
    /\ phase' = "prepared"
    /\ fed' = <<>>
    /\ UNCHANGED <<weight_type_, actual_num_bands_, dst, dst_mask, loaderVars, tfwVars,
                   resolverVars, mainVars>>

\* prepare that keeps the accumulators of the feeds it gives up
PrepareAnewKeeping ==
    /\ phase \in {"constructed", "prepared", "blended"}
    /\ caller.blended + caller.discarded < MaxCycles
    /\ IF phase = "prepared" /\ fed # <<>>
       THEN /\ caller' = [caller EXCEPT !.discarded = @ + 1]
            /\ fed' = <<>>
            /\ UNCHANGED <<phase, weight_type_, actual_num_bands_, num_bands_, dst_roi_,
                           dst_roi_final_, dst_pyr_laplace_, dst_band_weights_, dst,
                           dst_mask, loaderVars, tfwVars, resolverVars, mainVars>>
       ELSE \E s \in ReuseSizes : PreparesFor(NextCaller(s))

\* prepare(dst_roi) in whatever state the blender is: new, fed, or blended
PrepareAnew ==
    /\ phase \in {"constructed", "prepared", "blended"}
    /\ caller.blended + caller.discarded < MaxCycles
    /\ \E s \in ReuseSizes : PreparesFor(NextCaller(s))

NextReuse == PrepareAnew \/ Feed \/ Blend

SpecReuse == InitReuse /\ [][NextReuse]_vars

\* C25: after blend the Laplacian and weight pyramids are empty; prepare
\* sets the band count, the padded rectangle and zero accumulators anew, so
\* the accumulators after the feeds of a cycle and the output of its blend
\* are those of a newly constructed blender given the same prepare and
\* feeds, whatever was blended or fed and given up before.
C25_BlenderReuse ==
    /\ phase = "blended" => dst_pyr_laplace_ = <<>> /\ dst_band_weights_ = <<>>
    /\ phase \in {"prepared", "blended"} =>
          \A new \in {Prepared(caller.roi, actual_num_bands_, weight_type_)} :
          \A acc \in {FedInOrder([k \in DOMAIN fed |-> k], Len(fed))} :
              /\ dst_roi_final_ = caller.roi
              /\ num_bands_ = new.num_bands
              /\ dst_roi_ = new.dst_roi
              /\ fed = <<>> => acc.laplace = new.laplace /\ acc.weights = new.weights
              /\ phase = "prepared" =>
                    /\ dst_pyr_laplace_ = acc.laplace
                    /\ dst_band_weights_ = acc.weights
              /\ phase = "blended" =>
                    \E cast \in {"wrap", "saturate"} :
                        \A out \in {Blended(acc, dst_roi_final_, weight_type_, cast)} :
                            dst = out.dst /\ dst_mask = out.dst_mask

\* a cycle of two feeds was blended after a blended cycle and a discarded one
C25_Witness ==
    /\ phase = "blended"
    /\ caller.blended = 1
    /\ caller.discarded = 1
    /\ Len(fed) = 2
    /\ dst_roi_final_.width = 4

-----------------------------------------------------------------------------
(* buildCoverageMask on tiles that have pixels off their border.             *)

CoverageSizes == {<<3, 3>>, <<5, 5>>}

\* the feather radii: none, the least that feathers, and the two around the
\* radius at which a pixel next to a zero still rounds to 1
CoverageRadii == {0, 1, 2, 487, 512}

\* the sets of invalid pixels: none, the centre, a corner, the centre and an edge
InvalidSets(w, h) ==
    {{}, {<<w \div 2, h \div 2>>}, {<<0, 0>>},
     {<<w \div 2, h \div 2>>, <<w \div 2, 0>>}}

Magenta == <<255, 0, 255>>

\* a tile of w x h with the pixels of bad invalid: by a PC_ mask whose valid
\* pixels have the gray lo and whose invalid ones the gray hi, or by magenta
CoverageInput(w, h, bad, lo, hi) ==
    [tile |-> [x |-> 0, y |-> 0, width |-> w, height |-> h],
     raster |-> Image(w, h, [p \in Pixels(w, h) |->
                                IF hi = 0 /\ p \in bad THEN Magenta ELSE Gray100]),
     pc |-> IF hi = 0 THEN NoFile
            ELSE [state |-> "ok", width |-> w, height |-> h,
                  px |-> [p \in Pixels(w, h) |-> IF p \in bad THEN hi ELSE lo]]]

CoverageInputs ==
    {CoverageInput(s[1], s[2], bad, g[1], g[2]) :
        s \in CoverageSizes,
        bad \in InvalidSets(3, 3) \cup InvalidSets(5, 5),
        g \in {<<0, 0>>, <<0, 128>>, <<127, 255>>}}

InitCoverage ==
    /\ NoBlender
    /\ NoTfw
    /\ NoResolver
    /\ NoMain
    /\ \E in \in CoverageInputs :
          /\ tiles_ = <<in.tile>>
          /\ rasters = <<in.raster>>
          /\ pcFiles = <<in.pc>>
    /\ generated = {}
    /\ voronoiFiles = NoMasks(1)
    /\ genResult = "none"
    /\ errorMessage = ""
    /\ divByZero = FALSE
    /\ tileIndex = 0
    /\ weightMasks = NoMasks(1)
    /\ blendMasks = NoMasks(1)
    /\ overlapMargin = 0
    /\ featherRadius \in CoverageRadii
    /\ useVoronoiMasks = FALSE

NextCoverage == BuildMasks

SpecCoverage == InitCoverage /\ [][NextCoverage]_vars

\* pixel p of tile i is invalid: gray >= 128 in the loaded mask or, without
\* a mask, magenta in the raster
InvalidAt(i, p) ==
    IF pcFiles[i].state = "ok" THEN pcFiles[i].px[p] >= 128
    ELSE rasters[i].px[p] = Magenta

\* the mask is one gray value per pixel of the tile's raster
EightBitOfSize(m, i) ==
    /\ m.width = rasters[i].width
    /\ m.height = rasters[i].height
    /\ \A p \in Pixels(m.width, m.height) : m.px[p] \in 0 .. 255

\* C22: for sharp = false and every feather radius >= 0 the mask that
\* buildCoverageMask returns is 8-bit, of the input's dimensions, and 0 at a
\* pixel if and only if the pixel was invalid.
C22_FeatherKeepsInvalid ==
    \A i \in 1 .. tileIndex :
        /\ EightBitOfSize(weightMasks[i], i)
        /\ \A p \in Pixels(rasters[i].width, rasters[i].height) :
              (weightMasks[i].px[p] = 0) <=> InvalidAt(i, p)

\* C22 as the code has it: the mask is 0 at every invalid pixel; up to the
\* radius 1 at no other pixel; above it also on the first and last row and
\* column, and up to the radius 487 nowhere else.
C22_FeatherNeverRevives ==
    \A i \in 1 .. tileIndex :
        /\ EightBitOfSize(weightMasks[i], i)
        /\ \A p \in Pixels(rasters[i].width, rasters[i].height) :
              LET zero == weightMasks[i].px[p] = 0
                  border == p \in BorderPixels(rasters[i].width, rasters[i].height)
              IN /\ InvalidAt(i, p) => zero
                 /\ featherRadius <= 1 => (zero <=> InvalidAt(i, p))
                 /\ featherRadius > 1 => (border => zero)
                 /\ (featherRadius > 1 /\ featherRadius <= 487) =>
                       (zero <=> (InvalidAt(i, p) \/ border))

\* a feathered mask of a tile with an invalid centre and valid pixels about it
C22_Witness ==
    /\ tileIndex = 1
    /\ featherRadius = 2
    /\ rasters[1].width = 5
    /\ InvalidAt(1, <<2, 2>>)
    /\ weightMasks[1].px[<<2, 2>>] = 0
    /\ weightMasks[1].px[<<1, 1>>] > 0
    /\ weightMasks[1].px[<<0, 0>>] = 0

-----------------------------------------------------------------------------
(* The driver on inputs that are present and cannot be read.                 *)

\* the PC_ mask of tile i is in the directory and cannot be decoded
Unreadable(i) == pcFiles[i].state = "unreadable"

\* C21: a raster or a validity mask that is present and cannot be read ends
\* the run with an error: the masks of a tile are built only once its raster
\* is read, no weight mask is ever built for a tile whose validity mask is
\* unreadable (the magenta fallback does not stand in for it), and no run
\* with such a mask succeeds, with or without Voronoi masks.
C21_UnreadableInputsAbort ==
    /\ pc = "masks" => tileIndex \in images
    /\ \A i \in 1 .. Len(tiles_) :
          Unreadable(i) =>
             /\ IsNull(weightMasks[i])
             /\ \A k \in 1 .. Len(stages) : stages[k] # <<"feed", i>>
             /\ exitStatus # "success"

-----------------------------------------------------------------------------
(* The tiles after the resolver has returned.                                *)

\* C24: once loadFromDirectory has succeeded no step of the run changes a
\* tile's offset, size, raster or validity-mask file, nor the canvas size;
\* the generated mask paths change in generateVoronoiMasks alone, and after
\* its success every tile has one.
C24_MetadataImmutable ==
    /\ [][loadResult = "ok" =>
             /\ tiles_' = tiles_
             /\ rasters' = rasters
             /\ pcFiles' = pcFiles
             /\ canvasSize_' = canvasSize_
             /\ <<pixelWidth_', pixelHeight_'>> = <<pixelWidth_, pixelHeight_>>
             /\ generated' # generated => pc = "generate"]_vars
    /\ [](genResult = "ok" => generated = 1 .. Len(tiles_))

\* a run with Voronoi masks fed both tiles and wrote its output: every
\* step after the resolver has acted on the tiles
C24_Witness ==
    /\ exitStatus = "success"
    /\ useVoronoiMasks
    /\ genResult = "ok"
    /\ generated = {1, 2}
    /\ tiles_[2].x = 2
    /\ canvasSize_ = <<4, 1>>
    /\ \E k \in 1 .. Len(stages) : stages[k] = <<"feed", 2>>

-----------------------------------------------------------------------------
(* World files without a raster.                                             *)

\* the directory without the world files that have no raster of their name
WithoutRasterless(dir) ==
    [dir EXCEPT !.entries = SelectSeq(@, LAMBDA e : e.raster.state # "none")]

\* C29: a world file with no matching raster makes no tile and changes
\* nothing: loadFromDirectory ends as it would on the directory without that
\* file, with the same success or failure and, on success, the same tiles
\* and offsets, pixel scale and canvas size.
C29_RasterlessSkipped ==
    loadResult # "none" =>
        \A r \in {LoadedFrom(WithoutRasterless(directory))} :
            /\ Len(tiles_) <= Len(Placed)
            /\ (loadResult = "ok") = r.ok
            /\ loadResult = "ok" =>
                  /\ tiles_ = r.tiles
                  /\ <<pixelWidth_, pixelHeight_>> = <<r.pixelWidth, r.pixelHeight>>
                  /\ canvasSize_ = r.canvas
====
